---- MODULE Spec2Model ----
(***************************************************************************)
(* Model of the OAuth / token-vault / request-orchestrator core of the     *)
(* Notion integration server.                                              *)
(*                                                                         *)
(* Every await of the TypeScript code (a Redis command, a SQL statement, a *)
(* fetch) is one atomic step of the process that runs it; the synchronous  *)
(* code that follows an await up to the next one belongs to the same step. *)
(* Time is counted in minutes.                                             *)
(***************************************************************************)
EXTENDS Integers, Sequences, FiniteSets, TLC

\* ---------------------------------------------------------------- bounds

\* concurrent request tasks
NProcs == 2
\* access tokens the provider issues in one behaviour
MaxIssued == 2
\* minutes the clock of the sequential vault specification may advance
MaxTime == 2
\* state rows buildAuthorizationUrl creates in one behaviour
MaxStates == 2
\* minutes the clock of the sequential OAuth specification may advance
MaxTimeOAuth == 12
\* minutes the clock of the discovery specification may advance
MaxTimeDiscovery == 120

\* ------------------------------------------------------ program constants

\* config/constants.ts: TOKEN_REFRESH_BUFFER_SECONDS = 300, in minutes
TOKEN_REFRESH_BUFFER == 5
\* config/constants.ts: OAUTH_METADATA_CACHE_TTL_SECONDS = 3600, in minutes
OAUTH_METADATA_CACHE_TTL == 60
\* token.service waitForRefresh / getValidAccessToken: the 60_000 ms margin
SAFETY_MARGIN == 1
\* storeTokens / refreshAccessToken: 365 * 24 * 60 * 60 s, in minutes
DEFAULT_EXPIRES_IN == 525600
\* config/constants.ts: TOKEN_REFRESH_MAX_RETRIES
TOKEN_REFRESH_MAX_RETRIES == 3
\* config/constants.ts: OAUTH_STATE_EXPIRY_MINUTES
OAUTH_STATE_EXPIRY == 10
\* startStateCleanup: INTERVAL '1 hour', in minutes
CLEANUP_GRACE == 60
\* config/constants.ts: TOKEN_REFRESH_LOCK_TTL_SECONDS
TOKEN_REFRESH_LOCK_TTL == 30
\* refreshAccessToken: AbortSignal.timeout(15_000), in seconds
FETCH_TIMEOUT == 15
\* config/constants.ts: NETWORK_RETRY_BASE_DELAY_MS, in seconds
NETWORK_RETRY_BASE_DELAY == 1
\* refreshAccessToken: the Retry-After assumed when the header is missing
RETRY_AFTER_DEFAULT == 5
\* config/constants.ts: TOKEN_REFRESH_WAIT_TIMEOUT_MS, in milliseconds
TOKEN_REFRESH_WAIT_TIMEOUT == 5000
\* config/constants.ts: TOKEN_REFRESH_WAIT_POLL_MS, in milliseconds
TOKEN_REFRESH_WAIT_POLL == 250

\* a Retry-After (seconds) the provider may send with a 429 answer
LongRetryAfter == 30

\* lifetimes (minutes) a provider may declare: ShortLife is inside the
\* refresh buffer, LongLife is outside it until the clock has advanced; 0
\* stands for a response without expires_in
ShortLife == 1
LongLife == 6
ExpiresIn == {0, ShortLife, LongLife}
\* without a running clock LongLife and a missing expires_in act alike
ExpiresInNoClock == {0, ShortLife}

Procs == 1 .. NProcs
Users == {"u1", "u2"}
\* the user whose vault operations are explored
VaultUser == "u1"

\* ------------------------------------------------------------ secret codec

\* a NULL column / absent Redis key
NULL == <<>>

\* encryptAES256GCM: the ciphertext is bound to the plaintext and the nonce
EncryptToken(plaintext, iv) == [ciphertext |-> <<plaintext, iv>>, iv |-> iv]

\* decryptAES256GCM: only the nonce used to encrypt opens the ciphertext;
\* 0 - 1 stands for the thrown decryption error
DecryptToken(ciphertext, iv) ==
    IF ciphertext # NULL /\ ciphertext[2] = iv THEN ciphertext[1] ELSE 0 - 1

\* a null EncryptedToken: `encrypted?.ciphertext ?? null`, `encrypted?.iv ?? null`
NoEncrypted == [ciphertext |-> NULL, iv |-> 0]

\* tokenData.refresh_token ? encryptToken(tokenData.refresh_token) : null
EncryptOptional(plaintext, iv) ==
    IF plaintext # 0 THEN EncryptToken(plaintext, iv) ELSE NoEncrypted

\* ------------------------------------------------------------------ state

VARIABLES
    now,          \* Date.now() / NOW(), minutes
    conn,         \* notion_connections: user -> row, or NoRow
    cache,        \* Redis access_token:{userId}: user -> [tok, exp], or NULL
    lock,         \* Redis token_refresh:{userId}: user -> owner token, or NULL
    issued,       \* provider: number of access tokens issued so far
    ivSeq,        \* nonces drawn so far (each encryption takes a fresh one)
    proc,         \* per task: program counter and locals
    hist,         \* per task: observations the properties refer to
    flags,        \* per user: observations the properties refer to
    oauth_states, \* oauth_states: state_value -> row, or NoState
    stateSeq,     \* number of state values generated so far
    verifiers,    \* per state: how many validations returned its verifier
    metadataCache \* per discovery module: cachedMetadata and cacheExpiresAt

\* discovery.service.ts and the variant of it that throws: each module has
\* its own cachedMetadata / cacheExpiresAt
DiscoveryModules == {"discovery.service", "strict"}
NoMetadata == [issuer |-> "none"]
EmptyMetadataCache == [cachedMetadata |-> NoMetadata, cacheExpiresAt |-> 0]

vars == <<now, conn, cache, lock, issued, ivSeq, proc, hist, flags,
         oauth_states, stateSeq, verifiers, metadataCache>>

\* the variables of the OAuth state table
oauthVars == <<oauth_states, stateSeq, verifiers, metadataCache>>

NoRow == [status |-> "absent"]

\* the state values buildAuthorizationUrl can generate, in the order of their
\* generation
StateIds == 1 .. MaxStates

\* no oauth_states row with that state_value
NoState == [user_id |-> "none"]

\* ---------------------------------------------------------- utils/errors

\* a thrown error: class name, HTTP fields of AppError (statusCode 0: not an
\* AppError), the `status` property some plain errors carry, message words
AppError(name, statusCode, code, retryable, message) ==
    [name |-> name, statusCode |-> statusCode, code |-> code,
     retryable |-> retryable, status |-> 0, message |-> message]

ReconnectionRequired ==
    AppError("ReconnectionRequired", 401, "reconnection_required", FALSE,
             <<"Notion", "connection", "expired.">>)
NoConnectionError ==
    AppError("NoConnectionError", 404, "reconnection_required", FALSE,
             <<"No", "Notion", "connection", "found">>)
TokenRefreshError ==
    AppError("TokenRefreshError", 502, "notion_unavailable", TRUE,
             <<"Token", "refresh", "failed">>)
ConcurrentRefreshTimeout ==
    AppError("ConcurrentRefreshTimeout", 503, "notion_unavailable", TRUE,
             <<"Token", "refresh", "in", "progress,", "please", "try", "again">>)
MCPRequestError(message) ==
    AppError("MCPRequestError", 502, "notion_unavailable", TRUE, message)
OAuthStateError(message) ==
    AppError("OAuthStateError", 403, "internal_error", FALSE, message)
TokenExchangeError(message) ==
    AppError("TokenExchangeError", 502, "notion_unavailable", TRUE, message)

\* `new Error(message)` given a status property: not an AppError
PlainError(status, message) ==
    [name |-> "Error", statusCode |-> 0, code |-> "", retryable |-> FALSE,
     status |-> status, message |-> message]

NoError == PlainError(0, <<>>)

\* the result of a finished call: a value (a token; 0 for void), or the
\* error it threw
Ok(tok) == [err |-> NoError, tok |-> tok]
Err(e) == [err |-> e, tok |-> 0]
IsOk(r) == r.err = NoError
Threw(r, name) == r.err.name = name

\* TokenResponse of the token endpoint; 0 stands for a missing field
NoTokenData == [access_token |-> 0, refresh_token |-> 0, expires_in |-> 0]

\* an Express request as csrfProtection reads it: method, Origin header and
\* Referer header; NULL and NoReferer stand for a header that is absent
NoReferer == [absent |-> TRUE]
NoRequest == [method |-> "", origin |-> NULL, referer |-> NoReferer]

\* the locals of an encryption followed by a decryption
NoCrypto == [plaintext |-> <<>>]

\* a property that is not set (undefined) and a property with a value
Undefined == [undefined |-> TRUE]
Val(v) == [value |-> v]

\* params of a call that passes none, and a task that has built no request
NoParams ==
    [query |-> Undefined, pageSize |-> Undefined, startCursor |-> Undefined,
     filter |-> Undefined, pageId |-> Undefined, databaseId |-> Undefined]
NoUpstreamRequest == [method |-> "none"]

\* JSON null, and a task that has transformed no result
Null == [null |-> TRUE]
NoTransformed == [pages |-> <<>>, databases |-> <<>>]

IdleProc ==
    [pc |-> "idle", op |-> "none", connection |-> NoRow, accessToken |-> 0,
     ttl |-> 0, tokenData |-> NoTokenData, expiresAt |-> 0, attempt |-> 0,
     polls |-> 0, pending |-> Ok(0), result |-> Ok(0),
     operation |-> "", hasId |-> FALSE, stage |-> 0,
     state |-> 0, sessionUserId |-> "", stateRecord |-> NoState,
     elapsed |-> 0, refreshToken |-> 0,
     module |-> "", metadata |-> NoMetadata,
     req |-> NoRequest, NODE_ENV |-> "", crypto |-> NoCrypto,
     params |-> NoParams, request |-> NoUpstreamRequest,
     results |-> <<>>, transformed |-> NoTransformed]

\* how the POST to the token endpoint can fail: fetch rejects, or the answer
\* is not 2xx and carries a JSON body (its fields may be absent, "")
NoFailure == [kind |-> "none"]
NetworkFailure(reason) == [kind |-> "network", reason |-> reason]
EndpointFailure(status, error, description) ==
    [kind |-> "status", status |-> status, error |-> error,
     error_description |-> description]

\* what the model records about the invocation a task has in flight
IdleHist ==
    [fetches |-> 0, failed |-> FALSE, invalidGrant |-> FALSE,
     hadRefresh |-> FALSE, waited |-> FALSE, stale |-> 0,
     afterDisconnect |-> FALSE, afterRevoke |-> FALSE,
     refreshCalls |-> 0, upstream |-> 0, forced |-> 0, first401 |-> FALSE,
     non401 |-> FALSE,
     afterSuccess |-> FALSE, found |-> FALSE, consumed |-> FALSE,
     expired |-> FALSE, owner |-> FALSE, sleeps |-> <<>>,
     cached |-> FALSE, buffer |-> "", stored |-> 0, prior |-> NoRow,
     wrote |-> FALSE, noRefresh |-> "", exchange |-> NoFailure,
     discovery |-> "", answered |-> FALSE]

\* what the model records per user since the last storeTokens began: a
\* disconnect has cleared the row, a disconnect has returned, and a refresh
\* answered invalid_grant has returned
IdleFlags ==
    [disconnecting |-> FALSE, disconnected |-> FALSE, revoked |-> FALSE,
     persisted |-> 0]

InFlight(p) == proc[p].pc # "idle"

Init ==
    /\ now = 0
    /\ conn = [u \in Users |-> NoRow]
    /\ cache = [u \in Users |-> NULL]
    /\ lock = [u \in Users |-> NULL]
    /\ issued = 0
    /\ ivSeq = 0
    /\ proc = [p \in Procs |-> IdleProc]
    /\ hist = [p \in Procs |-> IdleHist]
    /\ flags = [u \in Users |-> IdleFlags]
    /\ oauth_states = [s \in StateIds |-> NoState]
    /\ stateSeq = 0
    /\ verifiers = [s \in StateIds |-> 0]
    /\ metadataCache = [m \in DiscoveryModules |-> EmptyMetadataCache]

\* Redis GET access_token:{userId}: a key past its TTL is gone
CacheGet(u) ==
    IF cache[u] # NULL /\ now < cache[u][2] THEN cache[u][1] ELSE 0

\* ------------------------------------------------------- token.repository

\* upsertConnection: INSERT ... ON CONFLICT (user_id) DO UPDATE
UpsertConnection(encAccess, encRefresh, expiresAt) ==
    [status |-> "active",
     encrypted_access_token |-> encAccess.ciphertext,
     access_token_iv |-> encAccess.iv,
     encrypted_refresh_token |-> encRefresh.ciphertext,
     refresh_token_iv |-> encRefresh.iv,
     expires_at |-> expiresAt,
     refresh_count |-> 0]

\* a faulty variant of UpdateTokensAfterRefresh: the UPDATE also sets the
\* status to 'active'
UpdateTokensReactivating(row, encAccess, encRefresh, expiresAt) ==
    IF row = NoRow THEN NoRow
    ELSE [row EXCEPT
            !.status = "active",
            !.encrypted_access_token = encAccess.ciphertext,
            !.access_token_iv = encAccess.iv,
            !.encrypted_refresh_token = encRefresh.ciphertext,
            !.refresh_token_iv = encRefresh.iv,
            !.expires_at = expiresAt,
            !.refresh_count = @ + 1]

\* a faulty variant of UpdateTokensAfterRefresh: a null refresh token leaves
\* the stored one in place (COALESCE)
UpdateTokensKeepingRefresh(row, encAccess, encRefresh, expiresAt) ==
    IF row = NoRow THEN NoRow
    ELSE [row EXCEPT
            !.encrypted_access_token = encAccess.ciphertext,
            !.access_token_iv = encAccess.iv,
            !.encrypted_refresh_token =
                IF encRefresh.ciphertext = NULL THEN @ ELSE encRefresh.ciphertext,
            !.refresh_token_iv =
                IF encRefresh.ciphertext = NULL THEN @ ELSE encRefresh.iv,
            !.expires_at = expiresAt,
            !.refresh_count = @ + 1]

\* a faulty variant of UpdateTokensAfterRefresh: refresh_count is not
\* incremented
UpdateTokensNotCounting(row, encAccess, encRefresh, expiresAt) ==
    IF row = NoRow THEN NoRow
    ELSE [row EXCEPT
            !.encrypted_access_token = encAccess.ciphertext,
            !.access_token_iv = encAccess.iv,
            !.encrypted_refresh_token = encRefresh.ciphertext,
            !.refresh_token_iv = encRefresh.iv,
            !.expires_at = expiresAt]

\* updateTokensAfterRefresh: UPDATE ... WHERE user_id = $1 (no row: no effect)
UpdateTokensAfterRefresh(row, encAccess, encRefresh, expiresAt) ==
    IF row = NoRow THEN NoRow
    ELSE [row EXCEPT
            !.encrypted_access_token = encAccess.ciphertext,
            !.access_token_iv = encAccess.iv,
            !.encrypted_refresh_token = encRefresh.ciphertext,
            !.refresh_token_iv = encRefresh.iv,
            !.expires_at = expiresAt,
            !.refresh_count = @ + 1]

\* disconnectUser: UPDATE ... SET status = 'disconnected', tokens = NULL
DisconnectUser(row) ==
    IF row = NoRow THEN NoRow
    ELSE [row EXCEPT
            !.status = "disconnected",
            !.encrypted_access_token = NULL,
            !.access_token_iv = 0,
            !.encrypted_refresh_token = NULL,
            !.refresh_token_iv = 0]

HasRefreshToken(row) ==
    row # NoRow /\ row.encrypted_refresh_token # NULL /\ row.refresh_token_iv # 0

HasAccessToken(row) ==
    row # NoRow /\ row.encrypted_access_token # NULL /\ row.access_token_iv # 0

\* the plaintext of the tokens stored in a Connection row
StoredAccessToken(row) == DecryptToken(row.encrypted_access_token, row.access_token_iv)
StoredRefreshToken(row) == DecryptToken(row.encrypted_refresh_token, row.refresh_token_iv)

\* ------------------------------------------------------------ bookkeeping

\* task p moves to the record rec; what was recorded about its invocation
\* becomes h
Move(p, rec, h) ==
    /\ proc' = [proc EXCEPT ![p] = rec]
    /\ hist' = [hist EXCEPT ![p] = h]
Go(p, rec) == Move(p, rec, hist[p])

\* what is recorded when an invocation begins
Started ==
    [IdleHist EXCEPT
       !.afterDisconnect = flags[VaultUser].disconnected,
       !.afterRevoke = flags[VaultUser].revoked,
       !.hadRefresh = HasRefreshToken(conn[VaultUser])]

Fresh(op) == [IdleProc EXCEPT !.op = op]

\* the invocation of task p ends now
Returned(p) == proc[p].pc = "return"

\* a nested call returns r to executeNotionOperation: a token lets it go on
\* to the upstream call, an error is thrown on to its caller
ExecContinue(pr, r) ==
    IF IsOk(r)
    THEN [pr EXCEPT !.pc = "e_call", !.accessToken = r.tok,
                    !.stage = IF pr.stage = 1 THEN 2 ELSE 4,
                    !.connection = NoRow, !.tokenData = NoTokenData,
                    !.ttl = 0, !.expiresAt = 0, !.attempt = 0,
                    !.polls = 0, !.pending = Ok(0), !.elapsed = 0,
                    !.refreshToken = 0]
    ELSE [IdleProc EXCEPT !.pc = "return", !.op = pr.op, !.result = r,
                          !.operation = pr.operation]

\* the call in pr returns r to whoever invoked it
Finish(pr, r) ==
    IF pr.op = "executeNotionOperation"
    THEN ExecContinue(pr, r)
    ELSE [IdleProc EXCEPT !.pc = "return", !.op = pr.op, !.result = r]

\* TokenResponse -> expires_at, as storeTokens and refreshAccessToken compute it
ExpiresAt(tokenData, t) ==
    t + (IF tokenData.expires_in = 0 THEN DEFAULT_EXPIRES_IN ELSE tokenData.expires_in)

\* the token responses the provider can give next: a new access token, with
\* or without a (rotated) refresh token, with or without a declared lifetime
TokenResponses(lifetimes) ==
    {[access_token |-> issued + 1, refresh_token |-> r, expires_in |-> e] :
        r \in {0, issued + 1}, e \in lifetimes}

\* --------------------------------------------------------- storeTokens

\* storeTokens up to its first await: encrypt both tokens, upsertConnection;
\* the provider issues no more than limit tokens
StartStoreUpTo(p, lifetimes, limit) ==
    /\ ~InFlight(p)
    /\ issued < limit
    /\ \E tokenData \in TokenResponses(lifetimes) :
        /\ conn' = [conn EXCEPT ![VaultUser] =
                      UpsertConnection(
                          EncryptToken(tokenData.access_token, ivSeq + 1),
                          EncryptOptional(tokenData.refresh_token, ivSeq + 2),
                          ExpiresAt(tokenData, now))]
        /\ ivSeq' = ivSeq + (IF tokenData.refresh_token # 0 THEN 2 ELSE 1)
        /\ Move(p, [Fresh("storeTokens") EXCEPT !.pc = "s_del",
                                                !.tokenData = tokenData],
                [Started EXCEPT !.wrote = TRUE])
    /\ issued' = issued + 1
    /\ flags' = [flags EXCEPT ![VaultUser] = IdleFlags]
    /\ UNCHANGED <<now, cache, lock>>
    /\ UNCHANGED oauthVars

StartStore(p, lifetimes) == StartStoreUpTo(p, lifetimes, MaxIssued)

\* storeTokens: redis.del(access_token:{userId}), return
StoreInvalidate(p) ==
    /\ proc[p].pc = "s_del"
    /\ cache' = [cache EXCEPT ![VaultUser] = NULL]
    /\ Go(p, Finish(proc[p], Ok(0)))
    /\ UNCHANGED <<now, conn, lock, issued, ivSeq, flags>>
    /\ UNCHANGED oauthVars

\* ---------------------------------------------------------- disconnect

\* disconnect: disconnectUser(userId)
StartDisconnect(p) ==
    /\ ~InFlight(p)
    /\ conn' = [conn EXCEPT ![VaultUser] = DisconnectUser(@)]
    /\ Move(p, [Fresh("disconnect") EXCEPT !.pc = "d_del"],
            [Started EXCEPT !.prior = conn[VaultUser], !.wrote = TRUE])
    /\ flags' = [flags EXCEPT ![VaultUser].disconnecting = TRUE]
    /\ UNCHANGED <<now, cache, lock, issued, ivSeq>>
    /\ UNCHANGED oauthVars

\* a faulty variant of DisconnectInvalidate: the cached token is kept
DisconnectKeepCache(p) ==
    /\ proc[p].pc = "d_del"
    /\ Go(p, Finish(proc[p], Ok(0)))
    /\ flags' = [flags EXCEPT ![VaultUser].disconnected = @ \/ flags[VaultUser].disconnecting]
    /\ UNCHANGED <<now, conn, cache, lock, issued, ivSeq>>
    /\ UNCHANGED oauthVars

\* disconnect: redis.del(access_token:{userId}), return
DisconnectInvalidate(p) ==
    /\ proc[p].pc = "d_del"
    /\ cache' = [cache EXCEPT ![VaultUser] = NULL]
    /\ Go(p, Finish(proc[p], Ok(0)))
    /\ flags' = [flags EXCEPT ![VaultUser].disconnected = @ \/ flags[VaultUser].disconnecting]
    /\ UNCHANGED <<now, conn, lock, issued, ivSeq>>
    /\ UNCHANGED oauthVars

\* getConnectionStatus: what it reports for the row found (connected, status)
GetConnectionStatus(row) ==
    IF row = NoRow \/ row.status = "disconnected"
    THEN [connected |-> FALSE, status |-> "disconnected"]
    ELSE [connected |-> TRUE, status |-> row.status]

\* ------------------------------------------------- getValidAccessToken

\* redis.get(access_token:{userId}) answered for the record pr
CacheStep(pr) ==
    IF CacheGet(VaultUser) # 0
    THEN Finish(pr, Ok(CacheGet(VaultUser)))
    ELSE [pr EXCEPT !.pc = "g_load"]

\* where the expires_at of a row lies: outside the refresh buffer (more than
\* TOKEN_REFRESH_BUFFER ahead), at its edge, or inside it
BufferSide(row) ==
    IF row.expires_at > now + TOKEN_REFRESH_BUFFER THEN "outside"
    ELSE IF row.expires_at = now + TOKEN_REFRESH_BUFFER THEN "edge"
    ELSE "inside"

\* what is recorded at the cache lookup: a hit, and where the expires_at of
\* the row that stores the cached token lies
CacheHist(h) ==
    IF CacheGet(VaultUser) = 0 THEN h
    ELSE [h EXCEPT
            !.cached = TRUE,
            !.buffer =
                IF /\ HasAccessToken(conn[VaultUser])
                   /\ StoredAccessToken(conn[VaultUser]) = CacheGet(VaultUser)
                THEN BufferSide(conn[VaultUser])
                ELSE ""]

\* what is recorded at the load of the row by a getValidAccessToken call:
\* the stored access token and where its expires_at lies, when the row is
\* active and holds a token
LoadHist(pr, h, row) ==
    IF /\ pr.op = "getValidAccessToken"
       /\ row # NoRow /\ row.status # "disconnected" /\ HasAccessToken(row)
    THEN [h EXCEPT !.buffer = BufferSide(row), !.stored = StoredAccessToken(row)]
    ELSE h

\* getValidAccessToken: the cache lookup
StartGet(p) ==
    /\ ~InFlight(p)
    /\ Move(p, CacheStep(Fresh("getValidAccessToken")), CacheHist(Started))
    /\ UNCHANGED <<now, conn, cache, lock, issued, ivSeq, flags>>
    /\ UNCHANGED oauthVars

\* a faulty variant of CacheTTL: no safety margin is subtracted
CacheTTLNoMargin(expiresAt, t) ==
    IF expiresAt - t > 1 THEN expiresAt - t ELSE 1

\* the cache TTL getValidAccessToken computes, in minutes
CacheTTL(expiresAt, t) ==
    IF expiresAt - t - SAFETY_MARGIN > 1 THEN expiresAt - t - SAFETY_MARGIN ELSE 1

\* a faulty variant of LoadStep: the stored token is used until it expires
LoadStepNoBuffer(pr, row) ==
    IF row = NoRow THEN Finish(pr, Err(NoConnectionError))
    ELSE IF row.status = "disconnected" THEN Finish(pr, Err(ReconnectionRequired))
    ELSE IF ~HasAccessToken(row) THEN Finish(pr, Err(ReconnectionRequired))
    ELSE IF row.expires_at > now
         THEN [pr EXCEPT
                 !.pc = "g_setex",
                 !.accessToken = StoredAccessToken(row),
                 !.ttl = 1]
         ELSE [pr EXCEPT !.pc = "r_lock"]

\* getValidAccessToken after findConnectionByUserId: the checks on the row,
\* then either decrypt and go on to cache the token, or go on to refresh
LoadStep(pr, row) ==
    IF row = NoRow THEN Finish(pr, Err(NoConnectionError))
    ELSE IF row.status = "disconnected" THEN Finish(pr, Err(ReconnectionRequired))
    ELSE IF ~HasAccessToken(row) THEN Finish(pr, Err(ReconnectionRequired))
    ELSE IF row.expires_at > now + TOKEN_REFRESH_BUFFER
         THEN [pr EXCEPT
                 !.pc = "g_setex",
                 !.accessToken =
                     DecryptToken(row.encrypted_access_token, row.access_token_iv),
                 !.ttl = CacheTTL(row.expires_at, now)]
         ELSE [pr EXCEPT !.pc = "r_lock"]

GetLoad(p) ==
    /\ proc[p].pc = "g_load"
    /\ Move(p, LoadStep(proc[p], conn[VaultUser]),
            LoadHist(proc[p], hist[p], conn[VaultUser]))
    /\ UNCHANGED <<now, conn, cache, lock, issued, ivSeq, flags>>
    /\ UNCHANGED oauthVars

\* getValidAccessToken: redis.setex(access_token:{userId}, ttl, token), return
GetSetex(p) ==
    /\ proc[p].pc = "g_setex"
    /\ cache' = [cache EXCEPT ![VaultUser] =
                   <<proc[p].accessToken, now + proc[p].ttl>>]
    /\ Go(p, Finish(proc[p], Ok(proc[p].accessToken)))
    /\ UNCHANGED <<now, conn, lock, issued, ivSeq, flags>>
    /\ UNCHANGED oauthVars

\* -------------------------------------------------- refreshAccessToken

\* the value of token_refresh:{userId} whose invocation has ended or died
\* without deleting it, age seconds after its SET; no later invocation has
\* this owner token
Stopped(age) == <<0, age>>

\* seconds since the SET of the key: what its holder has spent since it took
\* the lock, or the age recorded for a key left behind
LockAge ==
    IF lock[VaultUser][1] \in Procs
    THEN proc[lock[VaultUser][1]].elapsed
    ELSE lock[VaultUser][2]

\* the TTL given to token_refresh:{userId} at its SET has run out
LockOverdue ==
    /\ lock[VaultUser] # NULL
    /\ LockAge >= TOKEN_REFRESH_LOCK_TTL

\* a faulty variant of LockExpire: a key set without EX stays until it is
\* deleted
LockExpireNever ==
    /\ LockOverdue
    /\ UNCHANGED vars

\* Redis removes the key whose TTL has run out, whatever its holder is doing;
\* no command sees the key after that moment (the commands on the key are
\* guarded by ~LockOverdue)
LockExpire ==
    /\ LockOverdue
    /\ lock' = [lock EXCEPT ![VaultUser] = NULL]
    /\ UNCHANGED <<now, conn, cache, issued, ivSeq, proc, hist, flags>>
    /\ UNCHANGED oauthVars

\* a faulty variant of LockStep: the caller goes on to refresh whether or
\* not it got the lock
LockStepNoExclusion(pr) == [pr EXCEPT !.pc = "r_load"]

\* redis.set(token_refresh:{userId}, lockValue, EX, NX) answered for pr:
\* with the lock go on to load the row, without it go on to waitForRefresh
LockStep(pr) ==
    IF lock[VaultUser] = NULL
    THEN [pr EXCEPT !.pc = "r_load"]
    ELSE [pr EXCEPT !.pc = "w_poll"]

\* the access token of the stored row while the lock holder has not yet
\* written its new token; 0 when there is none
StaleToken ==
    LET h == lock[VaultUser][1]
    IN  IF /\ h \in Procs
           /\ proc[h].pc \in {"r_load", "r_fetch", "r_persist"}
           /\ HasAccessToken(conn[VaultUser])
        THEN DecryptToken(conn[VaultUser].encrypted_access_token,
                          conn[VaultUser].access_token_iv)
        ELSE 0

\* the observations of a refreshAccessToken call made at its lock attempt
LockHist(h) ==
    IF lock[VaultUser] = NULL
    THEN [h EXCEPT !.refreshCalls = @ + 1]
    ELSE [h EXCEPT !.refreshCalls = @ + 1, !.waited = TRUE, !.stale = StaleToken]

\* lock' after the lock attempt of task p
LockTaken(p) == IF lock[VaultUser] = NULL THEN <<p>> ELSE lock[VaultUser]

\* refreshAccessToken called directly: the lock attempt
StartRefresh(p) ==
    /\ ~InFlight(p)
    /\ ~LockOverdue
    /\ lock' = [lock EXCEPT ![VaultUser] = LockTaken(p)]
    /\ Move(p, LockStep(Fresh("refreshAccessToken")), LockHist(Started))
    /\ UNCHANGED <<now, conn, cache, issued, ivSeq, flags>>
    /\ UNCHANGED oauthVars

\* refreshAccessToken called by getValidAccessToken or by
\* executeNotionOperation: the lock attempt
RefreshLock(p) ==
    /\ proc[p].pc = "r_lock"
    /\ ~LockOverdue
    /\ lock' = [lock EXCEPT ![VaultUser] = LockTaken(p)]
    /\ Move(p, LockStep(proc[p]), LockHist(hist[p]))
    /\ UNCHANGED <<now, conn, cache, issued, ivSeq, flags>>
    /\ UNCHANGED oauthVars

\* refreshAccessToken after findConnectionByUserId
RefreshLoadStep(pr, row) ==
    IF row = NoRow
    THEN [pr EXCEPT !.pc = "r_release", !.pending = Err(NoConnectionError)]
    ELSE IF ~HasRefreshToken(row)
         THEN [pr EXCEPT !.pc = "r_norefresh"]
         ELSE [pr EXCEPT !.pc = "r_fetch", !.attempt = 0,
                         !.refreshToken =
                             DecryptToken(row.encrypted_refresh_token,
                                          row.refresh_token_iv)]

\* what is recorded at the load of the row by refreshAccessToken: the status
\* of a row found without a refresh token
RefreshLoadHist(h, row) ==
    IF row # NoRow /\ ~HasRefreshToken(row)
    THEN [h EXCEPT !.noRefresh = row.status]
    ELSE h

RefreshLoad(p) ==
    /\ proc[p].pc = "r_load"
    /\ Move(p, RefreshLoadStep(proc[p], conn[VaultUser]),
            RefreshLoadHist(hist[p], conn[VaultUser]))
    /\ UNCHANGED <<now, conn, cache, lock, issued, ivSeq, flags>>
    /\ UNCHANGED oauthVars

\* a faulty variant of RefreshNoToken: the error is thrown without
\* disconnectUser
RefreshNoTokenThrowOnly(p) ==
    /\ proc[p].pc = "r_norefresh"
    /\ Go(p, [proc[p] EXCEPT !.pc = "r_release",
                             !.pending = Err(ReconnectionRequired)])
    /\ UNCHANGED <<now, conn, cache, lock, issued, ivSeq, flags>>
    /\ UNCHANGED oauthVars

\* no refresh token: disconnectUser, throw ReconnectionRequired
RefreshNoToken(p) ==
    /\ proc[p].pc = "r_norefresh"
    /\ conn' = [conn EXCEPT ![VaultUser] = DisconnectUser(@)]
    /\ Move(p, [proc[p] EXCEPT !.pc = "r_release",
                               !.pending = Err(ReconnectionRequired)],
            [hist[p] EXCEPT !.wrote = TRUE])
    /\ UNCHANGED <<now, cache, lock, issued, ivSeq, flags>>
    /\ UNCHANGED oauthVars

\* the token endpoint answers 2xx with a token response; the provider
\* issues no more than limit tokens
RefreshFetchOkUpTo(p, lifetimes, limit) ==
    /\ proc[p].pc = "r_fetch"
    /\ issued < limit
    /\ \E tokenData \in TokenResponses(lifetimes) :
        Move(p, [proc[p] EXCEPT !.pc = "r_persist",
                                !.tokenData = tokenData,
                                !.expiresAt = ExpiresAt(tokenData, now)],
             [hist[p] EXCEPT !.fetches = @ + 1, !.answered = TRUE])
    /\ issued' = issued + 1
    /\ UNCHANGED <<now, conn, cache, lock, ivSeq, flags>>
    /\ UNCHANGED oauthVars

RefreshFetchOk(p, lifetimes) == RefreshFetchOkUpTo(p, lifetimes, MaxIssued)

\* the token endpoint answers 400 invalid_grant
RefreshFetchInvalidGrant(p) ==
    /\ proc[p].pc = "r_fetch"
    /\ Move(p, [proc[p] EXCEPT !.pc = "r_revoke"],
            [hist[p] EXCEPT !.fetches = @ + 1, !.failed = TRUE,
                            !.invalidGrant = TRUE])
    /\ UNCHANGED <<now, conn, cache, lock, issued, ivSeq, flags>>
    /\ UNCHANGED oauthVars

\* Math.pow(2, attempt)
RECURSIVE Pow2(_)
Pow2(n) == IF n = 0 THEN 1 ELSE 2 * Pow2(n - 1)

\* the sleep after a network error: NETWORK_RETRY_BASE_DELAY_MS * 2^attempt
BackoffDelay(attempt) == NETWORK_RETRY_BASE_DELAY * Pow2(attempt)

\* the Retry-After header of a response: absent, delay-seconds, or an
\* HTTP-date; delay is the number of seconds the provider asks to wait
NoHeader == [form |-> "none", delay |-> 0]
DelaySeconds(n) == [form |-> "seconds", delay |-> n]
HttpDate(n) == [form |-> "date", delay |-> n]

\* the JavaScript number NaN
NaN == 0 - 1

\* parseInt(text, 10) of a header value: the leading decimal digits, NaN for
\* a value that does not begin with digits (an HTTP-date begins with the
\* name of a weekday)
ParseInt(header) == IF header.form = "seconds" THEN header.delay ELSE NaN

\* parseInt(response.headers.get("Retry-After") || "5", 10)
RetryAfter(header) ==
    IF header.form = "none" THEN RETRY_AFTER_DEFAULT ELSE ParseInt(header)

\* sleep(seconds * 1000): setTimeout runs a timer whose delay is NaN after
\* one millisecond
Sleep(seconds) == IF seconds = NaN THEN 0 ELSE seconds

\* the Retry-After headers a 429 answer may carry: none, or delay-seconds
RetryAfterHeaders == {NoHeader, DelaySeconds(LongRetryAfter)}
\* the same, and the HTTP-date form of the header
RetryAfterForms == RetryAfterHeaders \cup {HttpDate(LongRetryAfter)}
\* a provider that does not rate-limit
NoRateLimit == {}

\* the attempts that are tried again: the fetch throws at its timeout (the
\* slowest network error), or the endpoint answers 429 with one of the given
\* Retry-After headers; each with the seconds the fetch took and the seconds
\* slept afterwards
RetryOutcomes(attempt, headers) ==
    {[kind |-> "network", fetch |-> FETCH_TIMEOUT, header |-> NoHeader,
      sleep |-> Sleep(BackoffDelay(attempt))]}
    \cup {[kind |-> "429", fetch |-> 0, header |-> header,
           sleep |-> Sleep(RetryAfter(header))] : header \in headers}

\* seconds of the lock's TTL used up; beyond the TTL the count does not matter
Elapse(elapsed, seconds) ==
    IF elapsed + seconds < TOKEN_REFRESH_LOCK_TTL
    THEN elapsed + seconds
    ELSE TOKEN_REFRESH_LOCK_TTL

\* the fetch throws (network error, timeout) or answers 429: sleep, next
\* attempt; after the last attempt TokenRefreshError
RefreshFetchRetry(p, headers) ==
    /\ proc[p].pc = "r_fetch"
    /\ \E o \in RetryOutcomes(proc[p].attempt, headers) :
        LET elapsed == Elapse(proc[p].elapsed, o.fetch + o.sleep)
        IN  Move(p, IF proc[p].attempt + 1 < TOKEN_REFRESH_MAX_RETRIES
                    THEN [proc[p] EXCEPT !.attempt = @ + 1, !.elapsed = elapsed]
                    ELSE [proc[p] EXCEPT !.pc = "r_release", !.elapsed = elapsed,
                                         !.pending = Err(TokenRefreshError)],
                 [hist[p] EXCEPT !.fetches = @ + 1, !.failed = TRUE,
                                 !.sleeps = Append(@, [kind |-> o.kind,
                                                       header |-> o.header,
                                                       sleep |-> o.sleep])])
    /\ UNCHANGED <<now, conn, cache, lock, issued, ivSeq, flags>>
    /\ UNCHANGED oauthVars

\* the token endpoint answers another status: TokenRefreshError at once
RefreshFetchError(p) ==
    /\ proc[p].pc = "r_fetch"
    /\ Move(p, [proc[p] EXCEPT !.pc = "r_release",
                               !.pending = Err(TokenRefreshError)],
            [hist[p] EXCEPT !.fetches = @ + 1, !.failed = TRUE])
    /\ UNCHANGED <<now, conn, cache, lock, issued, ivSeq, flags>>
    /\ UNCHANGED oauthVars

\* encrypt the new tokens, updateTokensAfterRefresh
RefreshPersist(p) ==
    /\ proc[p].pc = "r_persist"
    /\ conn' = [conn EXCEPT ![VaultUser] =
                  UpdateTokensAfterRefresh(
                      @,
                      EncryptToken(proc[p].tokenData.access_token, ivSeq + 1),
                      EncryptOptional(proc[p].tokenData.refresh_token, ivSeq + 2),
                      proc[p].expiresAt)]
    /\ ivSeq' = ivSeq + (IF proc[p].tokenData.refresh_token # 0 THEN 2 ELSE 1)
    /\ Move(p, [proc[p] EXCEPT !.pc = "r_del"], [hist[p] EXCEPT !.wrote = TRUE])
    /\ flags' = [flags EXCEPT ![VaultUser].persisted =
                    IF conn[VaultUser] # NoRow THEN @ + 1 ELSE @]
    /\ UNCHANGED <<now, cache, lock, issued>>
    /\ UNCHANGED oauthVars

\* redis.del(access_token:{userId}), return tokenData.access_token
RefreshInvalidate(p) ==
    /\ proc[p].pc = "r_del"
    /\ cache' = [cache EXCEPT ![VaultUser] = NULL]
    /\ Go(p, [proc[p] EXCEPT !.pc = "r_release",
                             !.pending = Ok(proc[p].tokenData.access_token)])
    /\ UNCHANGED <<now, conn, lock, issued, ivSeq, flags>>
    /\ UNCHANGED oauthVars

\* invalid_grant: disconnectUser
RefreshRevoke(p) ==
    /\ proc[p].pc = "r_revoke"
    /\ conn' = [conn EXCEPT ![VaultUser] = DisconnectUser(@)]
    /\ Move(p, [proc[p] EXCEPT !.pc = "r_revoke_del"],
            [hist[p] EXCEPT !.wrote = TRUE])
    /\ UNCHANGED <<now, cache, lock, issued, ivSeq, flags>>
    /\ UNCHANGED oauthVars

\* a faulty variant of RefreshRevokeInvalidate: the cached token is kept
RefreshRevokeKeepCache(p) ==
    /\ proc[p].pc = "r_revoke_del"
    /\ Go(p, [proc[p] EXCEPT !.pc = "r_release",
                             !.pending = Err(ReconnectionRequired)])
    /\ UNCHANGED <<now, conn, cache, lock, issued, ivSeq, flags>>
    /\ UNCHANGED oauthVars

\* invalid_grant: redis.del(access_token:{userId}), throw ReconnectionRequired
RefreshRevokeInvalidate(p) ==
    /\ proc[p].pc = "r_revoke_del"
    /\ cache' = [cache EXCEPT ![VaultUser] = NULL]
    /\ Go(p, [proc[p] EXCEPT !.pc = "r_release",
                             !.pending = Err(ReconnectionRequired)])
    /\ UNCHANGED <<now, conn, lock, issued, ivSeq, flags>>
    /\ UNCHANGED oauthVars

\* flags' when the refreshAccessToken call of task p ends
RevokedFlag(p) ==
    IF hist[p].invalidGrant
    THEN [flags EXCEPT ![VaultUser].revoked = TRUE]
    ELSE flags

\* finally: redis.get(lockKey); not the holder any more: the call ends
RefreshReleaseGet(p) ==
    /\ proc[p].pc = "r_release"
    /\ ~LockOverdue
    /\ IF lock[VaultUser] = <<p>>
       THEN /\ Go(p, [proc[p] EXCEPT !.pc = "r_release_del"])
            /\ flags' = flags
       ELSE /\ Go(p, Finish(proc[p], proc[p].pending))
            /\ flags' = RevokedFlag(p)
    /\ UNCHANGED <<now, conn, cache, lock, issued, ivSeq>>
    /\ UNCHANGED oauthVars

\* a faulty variant of RefreshReleaseDel: the call ends and leaves the key
RefreshReleaseSkip(p) ==
    /\ proc[p].pc = "r_release_del"
    /\ ~LockOverdue
    /\ Go(p, Finish(proc[p], proc[p].pending))
    /\ flags' = RevokedFlag(p)
    /\ UNCHANGED <<now, conn, cache, lock, issued, ivSeq>>
    /\ UNCHANGED oauthVars

\* finally: redis.del(lockKey); the call ends with its pending outcome
RefreshReleaseDel(p) ==
    /\ proc[p].pc = "r_release_del"
    /\ ~LockOverdue
    /\ lock' = [lock EXCEPT ![VaultUser] = NULL]
    /\ Go(p, Finish(proc[p], proc[p].pending))
    /\ flags' = RevokedFlag(p)
    /\ UNCHANGED <<now, conn, cache, issued, ivSeq>>
    /\ UNCHANGED oauthVars

\* ------------------------------------------------------ waitForRefresh

\* the polls that fit into the wait timeout: every iteration of the loop
\* sleeps TOKEN_REFRESH_WAIT_POLL before its query, and the loop goes on only
\* while less than TOKEN_REFRESH_WAIT_TIMEOUT has passed
WaitPolls == TOKEN_REFRESH_WAIT_TIMEOUT \div TOKEN_REFRESH_WAIT_POLL

\* the check of waitForRefresh on the row it polled
PollSucceeds(row) ==
    /\ row # NoRow
    /\ row.expires_at > now + SAFETY_MARGIN
    /\ HasAccessToken(row)

\* a faulty variant of WaitPollStep: a row that expires within the margin
\* is accepted
WaitPollStepNoMargin(pr, row, counted) ==
    IF row # NoRow /\ row.expires_at > now /\ HasAccessToken(row)
    THEN Finish(pr, Ok(DecryptToken(row.encrypted_access_token,
                                    row.access_token_iv)))
    ELSE IF pr.polls + 1 >= WaitPolls
    THEN Finish(pr, Err(ConcurrentRefreshTimeout))
    ELSE [pr EXCEPT !.polls = IF @ < counted THEN @ + 1 ELSE @]

\* one poll of waitForRefresh: sleep, findConnectionByUserId, the check, and
\* the loop condition: after the last poll that fits into the timeout
\* ConcurrentRefreshTimeout is thrown. The polls are counted up to `counted`.
WaitPollStep(pr, row, counted) ==
    IF PollSucceeds(row)
    THEN Finish(pr, Ok(DecryptToken(row.encrypted_access_token,
                                    row.access_token_iv)))
    ELSE IF pr.polls + 1 >= WaitPolls
    THEN Finish(pr, Err(ConcurrentRefreshTimeout))
    ELSE [pr EXCEPT !.polls = IF @ < counted THEN @ + 1 ELSE @]

WaitPoll(p, counted) ==
    /\ proc[p].pc = "w_poll"
    /\ Go(p, WaitPollStep(proc[p], conn[VaultUser], counted))
    /\ UNCHANGED <<now, conn, cache, lock, issued, ivSeq, flags>>
    /\ UNCHANGED oauthVars

\* a poll that fails after a slow sleep or query: the timeout has passed
\* when the loop condition is tested, ConcurrentRefreshTimeout is thrown
WaitTimeout(p) ==
    /\ proc[p].pc = "w_poll"
    /\ ~PollSucceeds(conn[VaultUser])
    /\ Go(p, Finish(proc[p], Err(ConcurrentRefreshTimeout)))
    /\ UNCHANGED <<now, conn, cache, lock, issued, ivSeq, flags>>
    /\ UNCHANGED oauthVars

\* the call of task p has returned or thrown to its caller: the task is free
\* for its next call
Return(p) ==
    /\ proc[p].pc = "return"
    /\ Move(p, IdleProc, IdleHist)
    /\ UNCHANGED <<now, conn, cache, lock, issued, ivSeq, flags>>
    /\ UNCHANGED oauthVars

\* time passes: the clock moves on by step minutes
Tick(limit, step) ==
    /\ now + step <= limit
    /\ now' = now + step
    /\ UNCHANGED <<conn, cache, lock, issued, ivSeq, proc, hist, flags>>
    /\ UNCHANGED oauthVars

\* the calls of the token vault, interleaved at their awaits
VaultStep(p) ==
    \/ StartStore(p, ExpiresInNoClock)
    \/ StoreInvalidate(p)
    \/ StartDisconnect(p)
    \/ DisconnectInvalidate(p)
    \/ StartGet(p)
    \/ GetLoad(p)
    \/ GetSetex(p)
    \/ StartRefresh(p)
    \/ RefreshLock(p)
    \/ RefreshLoad(p)
    \/ RefreshNoToken(p)
    \/ RefreshFetchOk(p, ExpiresInNoClock)
    \/ RefreshFetchInvalidGrant(p)
    \/ RefreshFetchRetry(p, NoRateLimit)
    \/ RefreshFetchError(p)
    \/ RefreshPersist(p)
    \/ RefreshInvalidate(p)
    \/ RefreshRevoke(p)
    \/ RefreshRevokeInvalidate(p)
    \/ RefreshReleaseGet(p)
    \/ RefreshReleaseDel(p)
    \/ WaitPoll(p, 1)
    \/ WaitTimeout(p)
    \/ Return(p)

VaultNext == (\E p \in Procs : VaultStep(p)) \/ LockExpire

SpecVault == Init /\ [][VaultNext]_vars

\* ---------------------------------------------- executeNotionOperation

\* a faulty variant of OPERATION_MAP: an alias is mapped to another alias
OPERATION_MAP_Chained ==
    [k \in {"list_pages", "list_databases", "search_pages", "search_databases",
            "notion_search", "notion_get_page", "notion_get_database",
            "notion_query_database", "notion_get_user", "notion_list_users"} |->
        CASE k = "list_pages" -> "notion_search"
          [] k = "list_databases" -> "search_databases"
          [] k = "search_pages" -> "search_pages"
          [] k = "search_databases" -> "search_databases"
          [] k = "notion_search" -> "search"
          [] k = "notion_get_page" -> "get_page"
          [] k = "notion_get_database" -> "get_database"
          [] k = "notion_query_database" -> "query_database"
          [] k = "notion_get_user" -> "get_user"
          [] k = "notion_list_users" -> "list_users"]

\* OPERATION_MAP: frontend and MCP-style names -> backend operation names
OPERATION_MAP ==
    [k \in {"list_pages", "list_databases", "search_pages", "search_databases",
            "notion_search", "notion_get_page", "notion_get_database",
            "notion_query_database", "notion_get_user", "notion_list_users"} |->
        CASE k = "list_pages" -> "search_pages"
          [] k = "list_databases" -> "search_databases"
          [] k = "search_pages" -> "search_pages"
          [] k = "search_databases" -> "search_databases"
          [] k = "notion_search" -> "search"
          [] k = "notion_get_page" -> "get_page"
          [] k = "notion_get_database" -> "get_database"
          [] k = "notion_query_database" -> "query_database"
          [] k = "notion_get_user" -> "get_user"
          [] k = "notion_list_users" -> "list_users"]

\* the properties OPERATION_MAP, an object literal, inherits from
\* Object.prototype: a lookup of such a name yields a function, which as a
\* property key and in a template string is its source text and which
\* equals no case label of a switch
ObjectPrototype ==
    [k \in {"constructor", "toString"} |->
        IF k = "constructor" THEN "function Object() { [native code] }"
        ELSE "function toString() { [native code] }"]

\* OPERATION_MAP[operation] || operation
MappedOperation(operation) ==
    IF operation \in DOMAIN OPERATION_MAP THEN OPERATION_MAP[operation]
    ELSE IF operation \in DOMAIN ObjectPrototype THEN ObjectPrototype[operation]
    ELSE operation

\* the operations the spec calls supported
SupportedOperations ==
    {"search", "search_pages", "search_databases", "get_page", "get_database",
     "query_database", "get_user", "list_users"}

\* the operation names a caller passes: the supported names, the aliases and
\* a name the switch does not know
OperationNames == SupportedOperations \cup DOMAIN OPERATION_MAP \cup {"unknown_tool"}

\* the notion-api.service function the switch of executeOperation calls;
\* "none" for the default branch
UpstreamFunction(operation) ==
    CASE operation \in {"search", "search_pages", "list_pages",
                        "search_databases", "list_databases"} -> "searchNotion"
      [] operation = "get_page" -> "getPage"
      [] operation = "get_database" -> "getDatabase"
      [] operation = "query_database" -> "queryDatabase"
      [] operation = "get_user" -> "getBotUser"
      [] operation = "list_users" -> "listUsers"
      [] OTHER -> "none"

\* what executeOperation throws before any upstream call; NoError when it
\* goes on to the upstream call
Rejection(operation, hasId) ==
    IF UpstreamFunction(operation) = "none"
    THEN MCPRequestError(<<"Unknown", "operation:", operation>>)
    ELSE IF operation = "get_page" /\ ~hasId
    THEN MCPRequestError(<<"pageId", "is", "required", "for", operation, "operation">>)
    ELSE IF operation \in {"get_database", "query_database"} /\ ~hasId
    THEN MCPRequestError(<<"databaseId", "is", "required", "for", operation, "operation">>)
    ELSE NoError

\* the answers of the upstream API: a status and the words of the body;
\* status "network" is a fetch that throws
UpstreamResponses ==
    [status : {"200", "401", "500", "network"},
     body : {<<"API", "token", "is", "invalid.">>, <<"authentication", "required">>}]

\* the first words of the error message of each notion-api.service function
FailureText(fn) ==
    CASE fn = "searchNotion" -> <<"Notion", "search", "failed:">>
      [] fn = "getPage" -> <<"Failed", "to", "get", "page:">>
      [] fn = "getDatabase" -> <<"Failed", "to", "get", "database:">>
      [] fn = "queryDatabase" -> <<"Database", "query", "failed:">>
      [] fn = "getBotUser" -> <<"Failed", "to", "get", "bot", "user:">>
      [] fn = "listUsers" -> <<"Failed", "to", "list", "users:">>

\* what the notion-api.service function fn throws on a response that is not ok
UpstreamError(fn, response) ==
    IF response.status = "network"
    THEN PlainError(0, <<"fetch", "failed">>)
    ELSE IF fn = "searchNotion" /\ response.status = "401"
    THEN PlainError(401, <<"Notion", "authentication", "failed">>)
    ELSE MCPRequestError(FailureText(fn) \o <<response.status>> \o response.body)

\* message.includes(word), on the words of the message
Includes(message, word) == \E i \in DOMAIN message : message[i] = word

isAuthError(err) == err.status = 401 \/ Includes(err.message, "authentication")

\* handleRouteError: the response the route sends for a thrown error
handleRouteError(err) ==
    IF err.statusCode # 0
    THEN [status |-> err.statusCode, code |-> err.code, retryable |-> err.retryable]
    ELSE [status |-> 500, code |-> "internal_error", retryable |-> TRUE]

\* params as far as executeOperation looks at them: whether the id that the
\* operation requires is given
IdParams(operation) ==
    IF MappedOperation(operation) \in {"get_page", "get_database", "query_database"}
    THEN BOOLEAN
    ELSE {FALSE}

\* executeNotionOperation returns r
ExecDone(pr, r) ==
    [IdleProc EXCEPT !.pc = "return", !.op = pr.op, !.result = r,
                     !.operation = pr.operation]

\* the catch blocks of executeNotionOperation: an auth error of the first
\* call forces a refresh, every other error is thrown on
ExecCatch(pr, err) ==
    IF pr.stage = 2 /\ isAuthError(err)
    THEN [pr EXCEPT !.pc = "r_lock", !.stage = 3]
    ELSE ExecDone(pr, Err(err))

\* the observations of executeNotionOperation after its catch block
CatchHist(pr, err, h) ==
    IF pr.stage = 2 /\ isAuthError(err) THEN [h EXCEPT !.forced = @ + 1] ELSE h

\* executeNotionOperation: getValidAccessToken, its cache lookup
StartExec(p) ==
    /\ ~InFlight(p)
    /\ \E operation \in OperationNames : \E hasId \in IdParams(operation) :
        Move(p, CacheStep([Fresh("executeNotionOperation") EXCEPT
                              !.operation = operation, !.hasId = hasId,
                              !.stage = 1]),
             Started)
    /\ UNCHANGED <<now, conn, cache, lock, issued, ivSeq, flags>>
    /\ UNCHANGED oauthVars

\* executeOperation throws before it calls the upstream API
ExecRejected(p) ==
    /\ proc[p].pc = "e_call"
    /\ LET err == Rejection(MappedOperation(proc[p].operation), proc[p].hasId)
       IN  /\ err # NoError
           /\ Move(p, ExecCatch(proc[p], err), CatchHist(proc[p], err, hist[p]))
    /\ UNCHANGED <<now, conn, cache, lock, issued, ivSeq, flags>>
    /\ UNCHANGED oauthVars

\* the upstream call is answered 2xx: the result is returned
ExecUpstreamOk(p) ==
    /\ proc[p].pc = "e_call"
    /\ Rejection(MappedOperation(proc[p].operation), proc[p].hasId) = NoError
    /\ Move(p, ExecDone(proc[p], Ok(0)),
            [hist[p] EXCEPT !.upstream = @ + 1, !.non401 = TRUE])
    /\ UNCHANGED <<now, conn, cache, lock, issued, ivSeq, flags>>
    /\ UNCHANGED oauthVars

\* the upstream call fails: the notion-api.service function throws
ExecUpstreamFail(p) ==
    /\ proc[p].pc = "e_call"
    /\ Rejection(MappedOperation(proc[p].operation), proc[p].hasId) = NoError
    /\ \E response \in UpstreamResponses :
        /\ response.status # "200"
        /\ LET fn == UpstreamFunction(MappedOperation(proc[p].operation))
               err == UpstreamError(fn, response)
               h == [hist[p] EXCEPT
                       !.upstream = @ + 1,
                       !.first401 = @ \/ (proc[p].stage = 2 /\ response.status = "401"),
                       !.non401 = @ \/ response.status # "401"]
           IN  Move(p, ExecCatch(proc[p], err), CatchHist(proc[p], err, h))
    /\ UNCHANGED <<now, conn, cache, lock, issued, ivSeq, flags>>
    /\ UNCHANGED oauthVars

\* one task, one call after the other, and the clock
SeqStep(p) ==
    \/ StartStore(p, ExpiresIn)
    \/ StoreInvalidate(p)
    \/ StartDisconnect(p)
    \/ DisconnectInvalidate(p)
    \/ StartGet(p)
    \/ GetLoad(p)
    \/ GetSetex(p)
    \/ StartRefresh(p)
    \/ RefreshLock(p)
    \/ RefreshLoad(p)
    \/ RefreshNoToken(p)
    \/ RefreshFetchOk(p, ExpiresIn)
    \/ RefreshFetchInvalidGrant(p)
    \/ RefreshFetchRetry(p, NoRateLimit)
    \/ RefreshFetchError(p)
    \/ RefreshPersist(p)
    \/ RefreshInvalidate(p)
    \/ RefreshRevoke(p)
    \/ RefreshRevokeInvalidate(p)
    \/ RefreshReleaseGet(p)
    \/ RefreshReleaseDel(p)
    \/ StartExec(p)
    \/ ExecRejected(p)
    \/ ExecUpstreamOk(p)
    \/ ExecUpstreamFail(p)
    \/ Return(p)

SeqNext == SeqStep(1) \/ LockExpire \/ Tick(MaxTime, 1)

SpecSeq == Init /\ [][SeqNext]_vars

\* concurrent refreshAccessToken calls on a stored connection with a refresh
\* token, the provider answering every token request successfully
InitConnected ==
    /\ now = 0
    /\ \E e \in ExpiresInNoClock :
        conn = [u \in Users |->
                  IF u = VaultUser
                  THEN UpsertConnection(
                           EncryptToken(1, 1), EncryptToken(1, 2),
                           ExpiresAt([access_token |-> 1, refresh_token |-> 1,
                                      expires_in |-> e], 0))
                  ELSE NoRow]
    /\ cache = [u \in Users |-> NULL]
    /\ lock = [u \in Users |-> NULL]
    /\ issued = 1
    /\ ivSeq = 2
    /\ proc = [p \in Procs |-> IdleProc]
    /\ hist = [p \in Procs |-> IdleHist]
    /\ flags = [u \in Users |-> IdleFlags]
    /\ oauth_states = [s \in StateIds |-> NoState]
    /\ stateSeq = 0
    /\ verifiers = [s \in StateIds |-> 0]
    /\ metadataCache = [m \in DiscoveryModules |-> EmptyMetadataCache]

RefreshStep(p) ==
    \/ StartRefresh(p)
    \/ RefreshLoad(p)
    \/ RefreshNoToken(p)
    \/ RefreshFetchOk(p, ExpiresInNoClock)
    \/ RefreshPersist(p)
    \/ RefreshInvalidate(p)
    \/ RefreshReleaseGet(p)
    \/ RefreshReleaseDel(p)
    \/ WaitPoll(p, 1)
    \/ WaitTimeout(p)
    \/ Return(p)

RefreshNext == \E p \in Procs : RefreshStep(p)

SpecRefresh == InitConnected /\ [][RefreshNext]_vars

\* SpecRefresh with every poll of a waiter counted
WaitStep(p) ==
    \/ StartRefresh(p)
    \/ RefreshLoad(p)
    \/ RefreshNoToken(p)
    \/ RefreshFetchOk(p, ExpiresInNoClock)
    \/ RefreshPersist(p)
    \/ RefreshInvalidate(p)
    \/ RefreshReleaseGet(p)
    \/ RefreshReleaseDel(p)
    \/ WaitPoll(p, WaitPolls)
    \/ WaitTimeout(p)
    \/ Return(p)

WaitNext == \E p \in Procs : WaitStep(p)

SpecWait == InitConnected /\ [][WaitNext]_vars

\* concurrent refreshAccessToken calls on a stored connection, the token
\* endpoint failing, rate-limiting or answering, and the lock's TTL
LockStepOf(p) ==
    \/ StartRefresh(p)
    \/ RefreshLoad(p)
    \/ RefreshFetchOk(p, ExpiresInNoClock)
    \/ RefreshFetchRetry(p, RetryAfterHeaders)
    \/ RefreshPersist(p)
    \/ RefreshInvalidate(p)
    \/ RefreshReleaseGet(p)
    \/ RefreshReleaseDel(p)
    \/ WaitPoll(p, 1)
    \/ WaitTimeout(p)
    \/ Return(p)

LockNext == (\E p \in Procs : LockStepOf(p)) \/ LockExpire

SpecLock == InitConnected /\ [][LockNext]_vars

\* a provider that rotates the refresh token with every token response: the
\* refresh token of its latest response is the only one it accepts
CurrentGrant == issued

\* the rotating provider accepts the refresh token presented and answers
\* with a new access token and a new refresh token
RefreshFetchRotate(p) ==
    /\ proc[p].pc = "r_fetch"
    /\ proc[p].refreshToken = CurrentGrant
    /\ issued < MaxIssued
    /\ \E e \in ExpiresInNoClock :
        LET tokenData == [access_token |-> issued + 1,
                          refresh_token |-> issued + 1, expires_in |-> e]
        IN  Move(p, [proc[p] EXCEPT !.pc = "r_persist",
                                    !.tokenData = tokenData,
                                    !.expiresAt = ExpiresAt(tokenData, now)],
                 [hist[p] EXCEPT !.fetches = @ + 1, !.answered = TRUE])
    /\ issued' = issued + 1
    /\ UNCHANGED <<now, conn, cache, lock, ivSeq, flags>>
    /\ UNCHANGED oauthVars

\* the rotating provider is presented a refresh token it has rotated away:
\* 400 invalid_grant
RefreshFetchSuperseded(p) ==
    /\ proc[p].pc = "r_fetch"
    /\ proc[p].refreshToken # CurrentGrant
    /\ Move(p, [proc[p] EXCEPT !.pc = "r_revoke"],
            [hist[p] EXCEPT !.fetches = @ + 1, !.failed = TRUE,
                            !.invalidGrant = TRUE])
    /\ UNCHANGED <<now, conn, cache, lock, issued, ivSeq, flags>>
    /\ UNCHANGED oauthVars

\* Redis loses access_token:{userId} (eviction, restart, flush)
CacheLost ==
    /\ cache[VaultUser] # NULL
    /\ cache' = [cache EXCEPT ![VaultUser] = NULL]
    /\ UNCHANGED <<now, conn, lock, issued, ivSeq, proc, hist, flags>>
    /\ UNCHANGED oauthVars

\* Redis loses token_refresh:{userId} (eviction, restart, flush)
LockLost ==
    /\ lock[VaultUser] # NULL
    /\ lock' = [lock EXCEPT ![VaultUser] = NULL]
    /\ UNCHANGED <<now, conn, cache, issued, ivSeq, proc, hist, flags>>
    /\ UNCHANGED oauthVars

\* concurrent getValidAccessToken and refreshAccessToken calls of a connected
\* user whose grant is never revoked, against a rotating provider
VolatileStep(p) ==
    \/ StartGet(p)
    \/ GetLoad(p)
    \/ GetSetex(p)
    \/ StartRefresh(p)
    \/ RefreshLock(p)
    \/ RefreshLoad(p)
    \/ RefreshNoToken(p)
    \/ RefreshFetchRotate(p)
    \/ RefreshFetchSuperseded(p)
    \/ RefreshPersist(p)
    \/ RefreshInvalidate(p)
    \/ RefreshRevoke(p)
    \/ RefreshRevokeInvalidate(p)
    \/ RefreshReleaseGet(p)
    \/ RefreshReleaseDel(p)
    \/ WaitPoll(p, 1)
    \/ WaitTimeout(p)
    \/ Return(p)

\* the same, the cache entry and the lock key vanishing at any moment
VolatileNext == (\E p \in Procs : VolatileStep(p)) \/ CacheLost \/ LockLost

SpecVolatile == InitConnected /\ [][VolatileNext]_vars

\* one task calling refreshAccessToken again and again on a stored
\* connection, the token endpoint answering in every way: a token response,
\* invalid_grant, another error status, a network error, or 429 with any
\* form of the Retry-After header
RetryStep(p) ==
    \/ StartRefresh(p)
    \/ RefreshLoad(p)
    \/ RefreshNoToken(p)
    \/ RefreshFetchOk(p, ExpiresInNoClock)
    \/ RefreshFetchInvalidGrant(p)
    \/ RefreshFetchRetry(p, RetryAfterForms)
    \/ RefreshFetchError(p)
    \/ RefreshPersist(p)
    \/ RefreshInvalidate(p)
    \/ RefreshRevoke(p)
    \/ RefreshRevokeInvalidate(p)
    \/ RefreshReleaseGet(p)
    \/ RefreshReleaseDel(p)
    \/ Return(p)

RetryNext == RetryStep(1) \/ LockExpire

SpecRetry == InitConnected /\ [][RetryNext]_vars

\* an await of the lock holder takes long (a stalled event loop, a slow
\* query or Redis round trip): the rest of the lock's TTL passes meanwhile
Stall(p) ==
    /\ lock[VaultUser] = <<p>>
    /\ proc[p].pc \in {"r_load", "r_fetch", "r_persist", "r_del", "r_release",
                       "r_release_del"}
    /\ proc[p].elapsed < TOKEN_REFRESH_LOCK_TTL
    /\ Go(p, [proc[p] EXCEPT !.elapsed = TOKEN_REFRESH_LOCK_TTL])
    /\ UNCHANGED <<now, conn, cache, lock, issued, ivSeq, flags>>
    /\ UNCHANGED oauthVars

\* SpecLock with holders that may stall at any await
LockPauseNext == LockNext \/ (\E p \in Procs : Stall(p))

SpecLockPause == InitConnected /\ [][LockPauseNext]_vars

\* ------------------------------------------------ authorization.service

\* buildAuthorizationUrl: generate state and PKCE verifier, encrypt the
\* verifier, INSERT INTO oauth_states with expires_at = now + expiry
BuildAuthorizationUrl(p) ==
    /\ ~InFlight(p)
    /\ stateSeq < MaxStates
    /\ \E userId \in Users :
        LET state == stateSeq + 1
            encrypted == EncryptToken(state, ivSeq + 1)
        IN  /\ oauth_states' = [oauth_states EXCEPT ![state] =
                                  [user_id |-> userId,
                                   encrypted_pkce_verifier |-> encrypted.ciphertext,
                                   pkce_verifier_iv |-> encrypted.iv,
                                   expires_at |-> now + OAUTH_STATE_EXPIRY,
                                   consumed |-> FALSE]]
            /\ Move(p, [Fresh("buildAuthorizationUrl") EXCEPT
                           !.pc = "return", !.state = state,
                           !.sessionUserId = userId, !.result = Ok(state)],
                    Started)
    /\ stateSeq' = stateSeq + 1
    /\ ivSeq' = ivSeq + 1
    /\ UNCHANGED <<now, conn, cache, lock, issued, flags, verifiers,
                   metadataCache>>

\* ----------------------------------------------------- callback.service

\* validateCallbackState returns or throws r; inside handleCallback a
\* validation goes on to the code exchange
ValidateEnd(pr, r) ==
    IF pr.op = "handleCallback" /\ IsOk(r)
    THEN [pr EXCEPT !.pc = "h_exchange"]
    ELSE [IdleProc EXCEPT !.pc = "return", !.op = pr.op, !.result = r,
                          !.state = pr.state, !.sessionUserId = pr.sessionUserId]

\* a faulty variant of SelectStep: the owner of the state is not compared
\* with the session user
SelectStepAnyOwner(pr, stateRecord) ==
    IF stateRecord = NoState
    THEN ValidateEnd(pr, Err(OAuthStateError(<<"Unknown", "state", "parameter">>)))
    ELSE IF stateRecord.consumed
    THEN ValidateEnd(pr, Err(OAuthStateError(<<"State", "already", "consumed">>)))
    ELSE IF stateRecord.expires_at < now
    THEN [pr EXCEPT !.pc = "v_delete", !.stateRecord = stateRecord]
    ELSE [pr EXCEPT !.pc = "v_update", !.stateRecord = stateRecord]

\* validateCallbackState after its SELECT: the checks on the row found
SelectStep(pr, stateRecord) ==
    IF stateRecord = NoState
    THEN ValidateEnd(pr, Err(OAuthStateError(<<"Unknown", "state", "parameter">>)))
    ELSE IF stateRecord.consumed
    THEN ValidateEnd(pr, Err(OAuthStateError(<<"State", "already", "consumed">>)))
    ELSE IF stateRecord.expires_at < now
    THEN [pr EXCEPT !.pc = "v_delete", !.stateRecord = stateRecord]
    ELSE IF stateRecord.user_id # pr.sessionUserId
    THEN ValidateEnd(pr, Err(OAuthStateError(
             <<"State", "does", "not", "belong", "to", "this", "session">>)))
    ELSE [pr EXCEPT !.pc = "v_update", !.stateRecord = stateRecord]

\* what is recorded about a validation at its SELECT
Looked(state, sessionUserId) ==
    LET stateRecord == oauth_states[state]
    IN  [Started EXCEPT
           !.afterSuccess = verifiers[state] > 0,
           !.found = stateRecord # NoState,
           !.consumed = stateRecord # NoState /\ stateRecord.consumed,
           !.expired = stateRecord # NoState /\ stateRecord.expires_at < now,
           !.owner = stateRecord # NoState /\ stateRecord.user_id = sessionUserId]

\* validateCallbackState(receivedState, sessionUserId): the SELECT
StartValidate(p) ==
    /\ ~InFlight(p)
    /\ \E state \in StateIds, sessionUserId \in Users :
        Move(p, SelectStep([Fresh("validateCallbackState") EXCEPT
                               !.state = state, !.sessionUserId = sessionUserId],
                           oauth_states[state]),
             Looked(state, sessionUserId))
    /\ UNCHANGED <<now, conn, cache, lock, issued, ivSeq, flags>>
    /\ UNCHANGED oauthVars

\* handleCallback(code, state, sessionUserId): the SELECT of its validation
StartHandleCallback(p) ==
    /\ ~InFlight(p)
    /\ \E state \in StateIds, sessionUserId \in Users :
        Move(p, SelectStep([Fresh("handleCallback") EXCEPT
                               !.state = state, !.sessionUserId = sessionUserId],
                           oauth_states[state]),
             Looked(state, sessionUserId))
    /\ UNCHANGED <<now, conn, cache, lock, issued, ivSeq, flags>>
    /\ UNCHANGED oauthVars

\* a faulty variant of ValidateDelete: the expired row is left in the table
ValidateExpiredKeepRow(p) ==
    /\ proc[p].pc = "v_delete"
    /\ Go(p, ValidateEnd(proc[p], Err(OAuthStateError(<<"State", "expired">>))))
    /\ UNCHANGED <<now, conn, cache, lock, issued, ivSeq, flags>>
    /\ UNCHANGED oauthVars

\* expired: DELETE FROM oauth_states WHERE id, throw "State expired"
ValidateDelete(p) ==
    /\ proc[p].pc = "v_delete"
    /\ oauth_states' = [oauth_states EXCEPT ![proc[p].state] = NoState]
    /\ Go(p, ValidateEnd(proc[p], Err(OAuthStateError(<<"State", "expired">>))))
    /\ UNCHANGED <<now, conn, cache, lock, issued, ivSeq, flags, stateSeq,
                   verifiers, metadataCache>>

\* a faulty variant of MarkConsumed: the row is left unconsumed
MarkConsumedNot(stateRecord) == stateRecord

\* UPDATE oauth_states SET consumed = TRUE WHERE id
MarkConsumed(stateRecord) ==
    IF stateRecord = NoState THEN NoState ELSE [stateRecord EXCEPT !.consumed = TRUE]

\* valid: mark the row consumed, decrypt the verifier, return it
ValidateUpdate(p) ==
    /\ proc[p].pc = "v_update"
    /\ oauth_states' = [oauth_states EXCEPT ![proc[p].state] = MarkConsumed(@)]
    /\ verifiers' = [verifiers EXCEPT ![proc[p].state] = @ + 1]
    /\ Go(p, ValidateEnd(proc[p],
               Ok(DecryptToken(proc[p].stateRecord.encrypted_pkce_verifier,
                               proc[p].stateRecord.pkce_verifier_iv))))
    /\ UNCHANGED <<now, conn, cache, lock, issued, ivSeq, flags, stateSeq,
                   metadataCache>>

\* exchangeCodeForTokens: the token endpoint answers with a token response
\* (Notion declares no expires_in)
HandleExchangeOk(p) ==
    /\ proc[p].pc = "h_exchange"
    /\ issued < MaxIssued
    /\ \E tokenData \in TokenResponses({0}) :
        Go(p, [proc[p] EXCEPT !.pc = "h_store", !.tokenData = tokenData])
    /\ issued' = issued + 1
    /\ UNCHANGED <<now, conn, cache, lock, ivSeq, flags>>
    /\ UNCHANGED oauthVars

\* the failures of the token endpoint the model draws from
ExchangeFailures ==
    { NetworkFailure("timeout"),
      EndpointFailure("400", "invalid_grant", "expired_code"),
      EndpointFailure("400", "invalid_grant", ""),
      EndpointFailure("500", "", "") }

\* exchangeCodeForTokens: the error thrown for a failure of the POST
ExchangeError(failure) ==
    IF failure.kind = "network"
    THEN TokenExchangeError(<<"Network", "error", "during", "token",
                              "exchange", failure.reason>>)
    ELSE TokenExchangeError(
            <<"Token", "exchange", "failed", failure.status,
              IF failure.error_description # "" THEN failure.error_description
              ELSE IF failure.error # "" THEN failure.error
              ELSE "Unknown error">>)

\* a faulty variant of HandleExchangeFail: the failed exchange gives the
\* state back for another attempt
HandleExchangeFailReopen(p) ==
    /\ proc[p].pc = "h_exchange"
    /\ \E failure \in ExchangeFailures :
        Move(p, ValidateEnd(proc[p], Err(ExchangeError(failure))),
             [hist[p] EXCEPT !.exchange = failure])
    /\ oauth_states' = [oauth_states EXCEPT ![proc[p].state] =
                          IF @ = NoState THEN @ ELSE [@ EXCEPT !.consumed = FALSE]]
    /\ UNCHANGED <<now, conn, cache, lock, issued, ivSeq, flags, stateSeq,
                   verifiers, metadataCache>>

\* exchangeCodeForTokens: network error or non-2xx answer, TokenExchangeError
HandleExchangeFail(p) ==
    /\ proc[p].pc = "h_exchange"
    /\ \E failure \in ExchangeFailures :
        Move(p, ValidateEnd(proc[p], Err(ExchangeError(failure))),
             [hist[p] EXCEPT !.exchange = failure])
    /\ UNCHANGED <<now, conn, cache, lock, issued, ivSeq, flags>>
    /\ UNCHANGED oauthVars

\* storeTokens(validation.userId, tokenData): encrypt, upsertConnection
HandleStore(p) ==
    /\ proc[p].pc = "h_store"
    /\ LET userId == proc[p].stateRecord.user_id
           tokenData == proc[p].tokenData
       IN  /\ conn' = [conn EXCEPT ![userId] =
                         UpsertConnection(
                             EncryptToken(tokenData.access_token, ivSeq + 1),
                             EncryptOptional(tokenData.refresh_token, ivSeq + 2),
                             ExpiresAt(tokenData, now))]
           /\ ivSeq' = ivSeq + (IF tokenData.refresh_token # 0 THEN 2 ELSE 1)
           /\ flags' = [flags EXCEPT ![userId] = IdleFlags]
    /\ Move(p, [proc[p] EXCEPT !.pc = "h_store_del"],
            [hist[p] EXCEPT !.wrote = TRUE])
    /\ UNCHANGED <<now, cache, lock, issued>>
    /\ UNCHANGED oauthVars

\* storeTokens: redis.del(access_token:{userId})
HandleStoreInvalidate(p) ==
    /\ proc[p].pc = "h_store_del"
    /\ cache' = [cache EXCEPT ![proc[p].stateRecord.user_id] = NULL]
    /\ Go(p, [proc[p] EXCEPT !.pc = "h_cleanup"])
    /\ UNCHANGED <<now, conn, lock, issued, ivSeq, flags>>
    /\ UNCHANGED oauthVars

\* a faulty variant of DeleteConsumed: every state row of the user is deleted
DeleteStatesOfUser(userId) ==
    [s \in StateIds |->
        IF oauth_states[s] # NoState /\ oauth_states[s].user_id = userId
        THEN NoState
        ELSE oauth_states[s]]

\* DELETE FROM oauth_states WHERE user_id = $1 AND consumed = TRUE
DeleteConsumed(userId) ==
    [s \in StateIds |->
        IF /\ oauth_states[s] # NoState
           /\ oauth_states[s].user_id = userId
           /\ oauth_states[s].consumed
        THEN NoState
        ELSE oauth_states[s]]

\* handleCallback: delete the consumed state rows of the user, return
HandleCleanup(p) ==
    /\ proc[p].pc = "h_cleanup"
    /\ oauth_states' = DeleteConsumed(proc[p].stateRecord.user_id)
    /\ Go(p, [IdleProc EXCEPT !.pc = "return", !.op = proc[p].op,
                              !.result = Ok(0), !.state = proc[p].state,
                              !.sessionUserId = proc[p].sessionUserId])
    /\ UNCHANGED <<now, conn, cache, lock, issued, ivSeq, flags, stateSeq,
                   verifiers, metadataCache>>

\* a faulty variant of StateCleanup: the sweep compares created_at, not
\* expires_at, with NOW()
StateCleanupEager ==
    /\ \E s \in StateIds :
          /\ oauth_states[s] # NoState
          /\ oauth_states[s].expires_at - OAUTH_STATE_EXPIRY < now
    /\ oauth_states' =
          [s \in StateIds |->
              IF /\ oauth_states[s] # NoState
                 /\ oauth_states[s].expires_at - OAUTH_STATE_EXPIRY < now
              THEN NoState
              ELSE oauth_states[s]]
    /\ UNCHANGED <<now, conn, cache, lock, issued, ivSeq, proc, hist, flags,
                   stateSeq, verifiers, metadataCache>>

\* startStateCleanup, one run of the periodic sweep: DELETE FROM oauth_states
\* WHERE expires_at < NOW() OR (consumed AND created_at < NOW() - 1 hour)
StateCleanup ==
    /\ \E s \in StateIds :
          /\ oauth_states[s] # NoState
          /\ \/ oauth_states[s].expires_at < now
             \/ /\ oauth_states[s].consumed
                /\ oauth_states[s].expires_at - OAUTH_STATE_EXPIRY < now - CLEANUP_GRACE
    /\ oauth_states' =
          [s \in StateIds |->
              IF /\ oauth_states[s] # NoState
                 /\ \/ oauth_states[s].expires_at < now
                    \/ /\ oauth_states[s].consumed
                       /\ oauth_states[s].expires_at - OAUTH_STATE_EXPIRY
                              < now - CLEANUP_GRACE
              THEN NoState
              ELSE oauth_states[s]]
    /\ UNCHANGED <<now, conn, cache, lock, issued, ivSeq, proc, hist, flags,
                   stateSeq, verifiers, metadataCache>>

\* the calls of the OAuth callback, interleaved at their awaits; no clock,
\* so no state expires
OAuthStep(p) ==
    \/ BuildAuthorizationUrl(p)
    \/ StartValidate(p)
    \/ StartHandleCallback(p)
    \/ ValidateUpdate(p)
    \/ HandleExchangeOk(p)
    \/ HandleExchangeFail(p)
    \/ HandleStore(p)
    \/ HandleStoreInvalidate(p)
    \/ HandleCleanup(p)
    \/ Return(p)

OAuthNext == \E p \in Procs : OAuthStep(p)

SpecOAuth == Init /\ [][OAuthNext]_vars

\* the clock of the OAuth specification moves in steps of more than half the
\* lifetime of a state, so that the second step passes the expiry of a state
\* generated before the first
OAuthClockStep == OAUTH_STATE_EXPIRY \div 2 + 1

\* one task, one call after the other, the periodic sweep and the clock
OAuthSeqStep(p) ==
    \/ BuildAuthorizationUrl(p)
    \/ StartValidate(p)
    \/ StartHandleCallback(p)
    \/ ValidateDelete(p)
    \/ ValidateUpdate(p)
    \/ HandleExchangeOk(p)
    \/ HandleExchangeFail(p)
    \/ HandleStore(p)
    \/ HandleStoreInvalidate(p)
    \/ HandleCleanup(p)
    \/ Return(p)

OAuthSeqNext ==
    \/ OAuthSeqStep(1)
    \/ StateCleanup
    \/ Tick(MaxTimeOAuth, OAuthClockStep)

SpecOAuthSeq == Init /\ [][OAuthSeqNext]_vars

\* handleCallback calls interleaved with getValidAccessToken calls, which
\* fill the cache that storeTokens invalidates
CallbackStep(p) ==
    \/ BuildAuthorizationUrl(p)
    \/ StartHandleCallback(p)
    \/ ValidateUpdate(p)
    \/ HandleExchangeOk(p)
    \/ HandleExchangeFail(p)
    \/ HandleStore(p)
    \/ HandleStoreInvalidate(p)
    \/ HandleCleanup(p)
    \/ StartGet(p)
    \/ GetLoad(p)
    \/ GetSetex(p)
    \/ Return(p)

CallbackNext == \E p \in Procs : CallbackStep(p)

SpecCallback == Init /\ [][CallbackNext]_vars

\* ============================================================ properties

\* the four token fields of a Connection row are null
TokenFieldsNull(row) ==
    /\ row.encrypted_access_token = NULL
    /\ row.access_token_iv = 0
    /\ row.encrypted_refresh_token = NULL
    /\ row.refresh_token_iv = 0

\* C1: in every reachable state, a Connection row whose status is
\* 'disconnected' has all four token fields null, also when a refresh
\* persists its tokens after a concurrent disconnect has run.
C1_DisconnectedHasNoTokens ==
    \A u \in Users :
        (conn[u] # NoRow /\ conn[u].status = "disconnected")
            => TokenFieldsNull(conn[u])

\* a refreshAccessToken call of task p has ended, and the Connection had a
\* refresh token when it began
RefreshEnded(p) ==
    /\ Returned(p)
    /\ proc[p].op = "refreshAccessToken"
    /\ hist[p].hadRefresh

\* C3 as stated: of concurrent refreshAccessToken calls on a Connection with
\* a refresh token and a provider that answers successfully, every call
\* returns a token, and only the lock holder called the token endpoint.
C3_AllCallersReturnToken ==
    \A p \in Procs :
        RefreshEnded(p) =>
            /\ IsOk(proc[p].result)
            /\ hist[p].fetches = (IF hist[p].waited THEN 0 ELSE 1)

\* C3, amended: of concurrent refreshAccessToken calls on a Connection with
\* a refresh token and a provider that answers successfully, a call that got
\* the lock makes exactly one token endpoint call and returns a token; a call
\* that missed the lock makes none, and returns a token or fails with
\* ConcurrentRefreshTimeout.
C3_HolderRefreshesWaiterMayTimeOut ==
    \A p \in Procs :
        RefreshEnded(p) =>
            IF hist[p].waited
            THEN /\ hist[p].fetches = 0
                 /\ IsOk(proc[p].result) \/ Threw(proc[p].result, "ConcurrentRefreshTimeout")
            ELSE /\ hist[p].fetches = 1
                 /\ IsOk(proc[p].result)

\* C3 witness: a waiter has timed out while the lock holder, whose token
\* request was answered successfully, is still at work
C3_Witness ==
    \E p, q \in Procs :
        /\ RefreshEnded(p)
        /\ hist[p].waited
        /\ Threw(proc[p].result, "ConcurrentRefreshTimeout")
        /\ lock[VaultUser] = <<q>>
        /\ proc[q].pc \in {"r_persist", "r_del"}

\* C4: a refreshAccessToken call that missed the lock never returns the
\* access token of the pre-refresh row.
C4_WaiterNeverReturnsStaleToken ==
    \A p \in Procs :
        (Returned(p) /\ hist[p].waited /\ IsOk(proc[p].result))
            => proc[p].result.tok # hist[p].stale

\* the program points of refreshAccessToken between its lock acquisition
\* and the end of its release step
LockSection ==
    {"r_load", "r_norefresh", "r_fetch", "r_persist", "r_del", "r_revoke",
     "r_revoke_del", "r_release", "r_release_del"}

\* C11: at any time at most one refreshAccessToken invocation of a user is
\* between its lock acquisition and its lock release, also when a refresh
\* with failed attempts, backoff and Retry-After sleeps outlasts the lock's
\* TTL.
C11_OneRefreshInLockSection ==
    Cardinality({p \in Procs : proc[p].pc \in LockSection}) <= 1

\* C12: the release step of refreshAccessToken never deletes a
\* token_refresh:{userId} key that holds another invocation's owner token.
C12_ReleaseDeletesOwnLockOnly ==
    [][\A p \in Procs :
          (proc[p].pc = "r_release_del" /\ proc'[p].pc # "r_release_del")
              => lock[VaultUser] \in {NULL, <<p>>}]_vars

\* C13: whenever the cache entry or the lock key vanishes, also during a
\* refresh against a rotating provider, a user whose grant was not revoked
\* keeps an active Connection, and while no refresh is about to persist its
\* response the Connection holds the tokens issued last.
C13_VolatileKeysNeverCorrupt ==
    /\ conn[VaultUser].status = "active"
    /\ (\A p \in Procs : proc[p].pc # "r_persist") =>
          /\ StoredAccessToken(conn[VaultUser]) = issued
          /\ StoredRefreshToken(conn[VaultUser]) = CurrentGrant

\* C8: once disconnect has returned and no storeTokens has begun since, a
\* getValidAccessToken call that starts returns no token: it fails with
\* ReconnectionRequired (NoConnectionError when there never was a row).
C8_NoTokenAfterDisconnect ==
    \A p \in Procs :
        (/\ Returned(p)
         /\ proc[p].op = "getValidAccessToken"
         /\ hist[p].afterDisconnect
         /\ flags[VaultUser].disconnected)
            => \/ Threw(proc[p].result, "ReconnectionRequired")
               \/ Threw(proc[p].result, "NoConnectionError")

\* a getValidAccessToken call of task p has ended
GetEnded(p) == Returned(p) /\ proc[p].op = "getValidAccessToken"

\* C14: a getValidAccessToken call without a cached token and without a
\* concurrent caller, on a Connection with a refresh token: when expires_at
\* is at or inside the refresh buffer the call makes exactly one refresh,
\* and, the token endpoint answering successfully, exactly one token
\* endpoint call and returns the token that call issued, not the stored
\* one; when expires_at is outside the buffer it makes no token endpoint
\* call and returns the stored token.
C14_InsideBufferOneRefresh ==
    \A p \in Procs :
        (GetEnded(p) /\ ~hist[p].cached /\ hist[p].hadRefresh) =>
            /\ hist[p].buffer \in {"inside", "edge"} =>
                  /\ hist[p].refreshCalls = 1
                  /\ ~hist[p].failed =>
                        /\ IsOk(proc[p].result)
                        /\ hist[p].fetches = 1
                        /\ proc[p].result.tok = issued
                        /\ proc[p].result.tok # hist[p].stored
            /\ hist[p].buffer = "outside" =>
                  /\ hist[p].refreshCalls = 0
                  /\ hist[p].fetches = 0
                  /\ proc[p].result = Ok(hist[p].stored)

\* C14 witness: a call that found expires_at inside the buffer has returned
\* the token issued by its one refresh
C14_Witness ==
    \E p \in Procs :
        /\ GetEnded(p)
        /\ ~hist[p].cached
        /\ hist[p].hadRefresh
        /\ hist[p].buffer = "inside"
        /\ hist[p].refreshCalls = 1
        /\ hist[p].fetches = 1
        /\ proc[p].result = Ok(issued)
        /\ hist[p].stored # issued

\* C15: getValidAccessToken never returns, without refreshing, an access
\* token whose expires_at is within the refresh buffer of the current time
\* (less than the buffer ahead), on the database path and on the cache path.
C15_NoTokenInsideBufferWithoutRefresh ==
    \A p \in Procs :
        (GetEnded(p) /\ IsOk(proc[p].result) /\ hist[p].refreshCalls = 0)
            => hist[p].buffer # "inside"

\* C16: disconnect raises no error and leaves the Connection, when there is
\* one, 'disconnected' with all token fields null, no cached token and
\* getConnectionStatus reporting connected = false; a second disconnect in a
\* row leaves the row as the first one left it, and a disconnect of a user
\* without a Connection creates no row.
C16_DisconnectIdempotent ==
    \A p \in Procs :
        (Returned(p) /\ proc[p].op = "disconnect") =>
            LET row == conn[VaultUser]
                prior == hist[p].prior
            IN  /\ proc[p].result = Ok(0)
                /\ cache[VaultUser] = NULL
                /\ ~GetConnectionStatus(row).connected
                /\ prior = NoRow => row = NoRow
                /\ prior # NoRow =>
                      /\ row # NoRow
                      /\ row.status = "disconnected"
                      /\ TokenFieldsNull(row)
                      /\ row.expires_at = prior.expires_at
                      /\ row.refresh_count = prior.refresh_count
                      /\ prior.status = "disconnected" => row = prior

\* C16 witness: a disconnect that began after an earlier disconnect had
\* returned has returned and has left the disconnected row as it was
C16_Witness ==
    \E p \in Procs :
        /\ Returned(p)
        /\ proc[p].op = "disconnect"
        /\ hist[p].afterDisconnect
        /\ hist[p].prior # NoRow
        /\ hist[p].prior.status = "disconnected"
        /\ conn[VaultUser] = hist[p].prior

\* C17: a Connection whose status is 'disconnected' stays 'disconnected'
\* through every step of interleaved getValidAccessToken, refreshAccessToken
\* and disconnect calls; the only step that makes it 'active' again is the
\* upsert of storeTokens.
C17_DisconnectedUntilStored ==
    [][\A u \in Users :
          (/\ conn[u] # NoRow
           /\ conn[u].status = "disconnected"
           /\ conn'[u] # conn[u]) =>
              \/ /\ conn'[u] # NoRow
                 /\ conn'[u].status = "disconnected"
              \/ \E p \in Procs :
                    /\ ~InFlight(p)
                    /\ proc'[p].op = "storeTokens"
                    /\ proc'[p].pc = "s_del"
                    /\ conn'[u].status = "active"]_vars

\* C17 witness: a refresh has written its tokens into a row that a
\* disconnect had cleared meanwhile, and the row is still 'disconnected'
C17_Witness ==
    \E p \in Procs :
        /\ proc[p].pc = "r_del"
        /\ conn[VaultUser] # NoRow
        /\ conn[VaultUser].status = "disconnected"
        /\ HasAccessToken(conn[VaultUser])
        /\ StoredAccessToken(conn[VaultUser]) = proc[p].tokenData.access_token

\* an executeNotionOperation call of task p has ended
ExecEnded(p) == Returned(p) /\ proc[p].op = "executeNotionOperation"

\* the call of task p ended with an error of the token vault, that is, its
\* getValidAccessToken or its refreshAccessToken failed
VaultFailed(p) ==
    proc[p].result.err.name \in
        {"ReconnectionRequired", "NoConnectionError", "TokenRefreshError",
         "ConcurrentRefreshTimeout"}

\* C5: an executeNotionOperation call never makes more than two upstream
\* calls or more than one forced refresh; when the upstream answers every
\* call with 401 and the refresh does not fail, it makes exactly two upstream
\* calls and one forced refresh and the caller gets an authentication (401)
\* error.
C5_RetryOnceThenAuthError ==
    \A p \in Procs :
        ExecEnded(p) =>
            /\ hist[p].upstream <= 2
            /\ hist[p].forced <= 1
            /\ (hist[p].first401 /\ ~hist[p].non401 /\ ~VaultFailed(p)) =>
                  /\ hist[p].upstream = 2
                  /\ hist[p].forced = 1
                  /\ handleRouteError(proc[p].result.err).status = 401

\* C6: for every supported operation, when the first upstream call is
\* answered 401, executeNotionOperation forces one refresh and, the refresh
\* having returned a token, repeats the upstream call once.
C6_Every401ForcesRefreshAndRetry ==
    \A p \in Procs :
        (/\ ExecEnded(p)
         /\ MappedOperation(proc[p].operation) \in SupportedOperations
         /\ hist[p].first401) =>
            /\ hist[p].forced = 1
            /\ ~VaultFailed(p) => hist[p].upstream = 2

\* C7: once a refreshAccessToken call that was answered invalid_grant has
\* ended, the Connection is 'disconnected' with all token fields null and no
\* token is cached, and a getValidAccessToken that starts then (directly or
\* as the first step of executeNotionOperation) fails with
\* ReconnectionRequired without a token endpoint call or an upstream call.
C7_InvalidGrantDisconnects ==
    /\ flags[VaultUser].revoked =>
          /\ conn[VaultUser] # NoRow
          /\ conn[VaultUser].status = "disconnected"
          /\ TokenFieldsNull(conn[VaultUser])
          /\ cache[VaultUser] = NULL
    /\ \A p \in Procs :
          (/\ Returned(p)
           /\ proc[p].op \in {"getValidAccessToken", "executeNotionOperation"}
           /\ hist[p].afterRevoke) =>
              /\ Threw(proc[p].result, "ReconnectionRequired")
              /\ hist[p].fetches = 0
              /\ hist[p].upstream = 0

\* C7 witness: a getValidAccessToken that began after the revocation has
\* failed with ReconnectionRequired
C7_Witness ==
    \E p \in Procs :
        /\ Returned(p)
        /\ proc[p].op = "getValidAccessToken"
        /\ hist[p].afterRevoke
        /\ flags[VaultUser].revoked
        /\ Threw(proc[p].result, "ReconnectionRequired")

\* the errors of validateCallbackState
UnknownState == OAuthStateError(<<"Unknown", "state", "parameter">>)
ReplayDetected == OAuthStateError(<<"State", "already", "consumed">>)
StateExpired == OAuthStateError(<<"State", "expired">>)

\* a validateCallbackState call of task p, made directly or as the first
\* step of handleCallback, has thrown
ValidationFailed(p) ==
    /\ Returned(p)
    /\ proc[p].op \in {"validateCallbackState", "handleCallback"}
    /\ proc[p].result.err.name = "OAuthStateError"

\* a call of task p that began with a validation has ended
ValidationEnded(p) ==
    /\ Returned(p)
    /\ proc[p].op \in {"validateCallbackState", "handleCallback"}

\* C2: for every stored state value, under every interleaving of concurrent
\* validateCallbackState calls, at most one call returns the PKCE verifier.
C2_VerifierReturnedOnce ==
    \A s \in StateIds : verifiers[s] <= 1

\* C9 as stated: a validateCallbackState of a state issued after a
\* validation of that state succeeded fails with the replay error.
C9_SecondValidationIsReplay ==
    \A p \in Procs :
        (ValidationEnded(p) /\ hist[p].afterSuccess)
            => proc[p].result.err = ReplayDetected

\* C9, amended: a validateCallbackState of a state issued after a validation
\* of that state succeeded returns no verifier; it fails with the replay
\* error while the consumed row is stored, and with the unknown-state error
\* once the row has been deleted.
C9_SecondValidationFails ==
    \A p \in Procs :
        (ValidationEnded(p) /\ hist[p].afterSuccess)
            => proc[p].result.err =
                  (IF hist[p].found THEN ReplayDetected ELSE UnknownState)

\* C9 witness: a second validation has met the consumed row and failed with
\* the replay error
C9_Witness ==
    \E p \in Procs :
        /\ ValidationFailed(p)
        /\ hist[p].afterSuccess
        /\ hist[p].found
        /\ proc[p].result.err = ReplayDetected

\* C10 as stated: a state presented to validateCallbackState after its
\* expires_at fails with the expiry error and its row is removed by that
\* call, whatever its consumed flag and whoever the session user is.
C10_ExpiredAlwaysRemoved ==
    \A p \in Procs :
        (ValidationEnded(p) /\ hist[p].found /\ hist[p].expired)
            => /\ proc[p].result.err = StateExpired
               /\ oauth_states[proc[p].state] = NoState

\* C10, amended: a state that is stored unconsumed and is presented after
\* its expires_at fails with the expiry error and its row is removed by that
\* call, whoever the session user is; a consumed state fails with the replay
\* error, expired or not.
C10_UnconsumedExpiredRemoved ==
    \A p \in Procs :
        (ValidationEnded(p) /\ hist[p].found) =>
            /\ (hist[p].expired /\ ~hist[p].consumed) =>
                  /\ proc[p].result.err = StateExpired
                  /\ oauth_states[proc[p].state] = NoState
            /\ hist[p].consumed => proc[p].result.err = ReplayDetected

\* C10 witness: an expired unconsumed state, presented by a session user who
\* does not own it, has failed with the expiry error and its row is gone
C10_Witness ==
    \E p \in Procs :
        /\ ValidationFailed(p)
        /\ hist[p].found
        /\ hist[p].expired
        /\ ~hist[p].consumed
        /\ ~hist[p].owner
        /\ proc[p].result.err = StateExpired
        /\ oauth_states[proc[p].state] = NoState

\* the step is one of task p inside a handleCallback invocation
CallbackStepOf(p) ==
    /\ proc'[p] # proc[p]
    /\ proc[p].op = "handleCallback" \/ proc'[p].op = "handleCallback"

\* C18: a Connection row is created or replaced only by the storeTokens
\* step of a handleCallback whose validateCallbackState succeeded for the
\* session user and whose exchangeCodeForTokens returned a token response;
\* the row is written for the owner of the state and holds the tokens of
\* that response. A handleCallback that fails in validation or exchange has
\* written neither the Connection row nor the cached token.
C18_OnlyValidatedCallbackWritesConnection ==
    [][/\ \A u \in Users :
            conn'[u] # conn[u] =>
                \E p \in Procs :
                    /\ proc[p].op = "handleCallback"
                    /\ proc[p].pc = "h_store"
                    /\ proc'[p].pc = "h_store_del"
                    /\ hist[p].found /\ ~hist[p].consumed /\ ~hist[p].expired
                    /\ hist[p].owner
                    /\ proc[p].stateRecord.user_id = u
                    /\ proc[p].sessionUserId = u
                    /\ proc[p].tokenData.access_token # 0
                    /\ conn'[u].status = "active"
                    /\ StoredAccessToken(conn'[u]) = proc[p].tokenData.access_token
       /\ \A p \in Procs :
            /\ (CallbackStepOf(p) /\ ~hist'[p].wrote)
                   => (conn' = conn /\ cache' = cache)
            /\ (Returned(p)' /\ proc'[p].op = "handleCallback"
                   /\ ~IsOk(proc'[p].result))
                   => ~hist'[p].wrote]_vars

\* C18 witness: a handleCallback has failed in its code exchange while the
\* session user has a Connection row written by an earlier handleCallback
\* and a cached access token, both still in place
C18_Witness ==
    \E p \in Procs :
        /\ Returned(p)
        /\ proc[p].op = "handleCallback"
        /\ Threw(proc[p].result, "TokenExchangeError")
        /\ proc[p].sessionUserId = VaultUser
        /\ conn[VaultUser] # NoRow
        /\ conn[VaultUser].status = "active"
        /\ CacheGet(VaultUser) = StoredAccessToken(conn[VaultUser])

\* C19: a refreshAccessToken invocation (called directly or by
\* getValidAccessToken) that took the lock and loaded a Connection without a
\* refresh token calls the token endpoint not once, leaves the Connection
\* 'disconnected' with all four token fields null from its disconnectUser
\* step on, and ends with ReconnectionRequired.
C19_NoRefreshTokenDisconnects ==
    \A p \in Procs :
        (/\ hist[p].noRefresh # ""
         /\ proc[p].op \in {"refreshAccessToken", "getValidAccessToken"})
            => /\ hist[p].fetches = 0
               /\ ~hist[p].waited
               /\ proc[p].pc # "r_norefresh"
                     => /\ conn[VaultUser].status = "disconnected"
                        /\ TokenFieldsNull(conn[VaultUser])
               /\ Returned(p) => Threw(proc[p].result, "ReconnectionRequired")

\* C19 witness: a refreshAccessToken call that loaded an active Connection
\* without a refresh token has ended
C19_Witness ==
    \E p \in Procs :
        /\ Returned(p)
        /\ proc[p].op = "refreshAccessToken"
        /\ hist[p].noRefresh = "active"
        /\ conn[VaultUser].status = "disconnected"

\* the delay a provider asks for with the Retry-After header of a 429
\* answer; without the header it names none, and the code's default counts
ProviderDelay(header) ==
    IF header.form = "none" THEN RETRY_AFTER_DEFAULT ELSE header.delay

\* C20: a refreshAccessToken invocation calls the token endpoint at most
\* TOKEN_REFRESH_MAX_RETRIES times, network errors and 429 answers counted
\* together; the i-th attempt, when it ends in a network error, is followed
\* by a sleep of NETWORK_RETRY_BASE_DELAY * 2^(i-1), and when it is answered
\* 429, by a sleep of the delay the provider's Retry-After asks for; an
\* invocation that used all its attempts ends with TokenRefreshError and has
\* not written the Connection row.
C20_BoundedRetriesWithDelays ==
    \A p \in Procs :
        proc[p].op = "refreshAccessToken" =>
            /\ hist[p].fetches <= TOKEN_REFRESH_MAX_RETRIES
            /\ Len(hist[p].sleeps) <= hist[p].fetches
            /\ \A i \in 1 .. Len(hist[p].sleeps) :
                  LET s == hist[p].sleeps[i]
                  IN  IF s.kind = "network"
                      THEN s.sleep = NETWORK_RETRY_BASE_DELAY * Pow2(i - 1)
                      ELSE s.sleep = ProviderDelay(s.header)
            /\ (Returned(p) /\ Len(hist[p].sleeps) = TOKEN_REFRESH_MAX_RETRIES)
                  => /\ Threw(proc[p].result, "TokenRefreshError")
                     /\ ~hist[p].wrote

\* the step is one of task p inside waitForRefresh
WaiterStep(p) == proc[p].pc = "w_poll" /\ proc'[p] # proc[p]

\* what a waiter never does: call the token endpoint, write the Connection
\* rows, the cache or the lock, or touch another task
WaiterPassive(p) ==
    /\ conn' = conn /\ cache' = cache /\ lock' = lock /\ issued' = issued
    /\ hist'[p].fetches = hist[p].fetches
    /\ \A q \in Procs \ {p} : proc'[q] = proc[q]

\* the waiter's call ends with the access token stored in the row
WaiterReturnsStored(p) ==
    /\ Returned(p)'
    /\ proc'[p].result = Ok(StoredAccessToken(conn[VaultUser]))

\* the waiter goes on to its next poll, or its call ends with
\* ConcurrentRefreshTimeout; it polls less than WaitPolls times
WaiterGoesOnOrTimesOut(p) ==
    \/ /\ proc'[p].pc = "w_poll"
       /\ proc'[p].polls = proc[p].polls + 1
       /\ proc'[p].polls < WaitPolls
    \/ /\ Returned(p)'
       /\ Threw(proc'[p].result, "ConcurrentRefreshTimeout")

\* C21 as stated: a refreshAccessToken call that missed the lock ends within
\* the polls that fit into the wait timeout; a poll that sees a row with
\* expires_at in the future and the token fields present ends it with the
\* stored token, any other poll goes on or ends it with
\* ConcurrentRefreshTimeout; the waiter calls no token endpoint, writes
\* neither row, cache nor lock, and does not touch the refresh in flight.
C21_WaiterSucceedsOnFutureExpiry ==
    [][\A p \in Procs :
          WaiterStep(p) =>
              /\ WaiterPassive(p)
              /\ IF /\ conn[VaultUser] # NoRow
                    /\ conn[VaultUser].expires_at > now
                    /\ HasAccessToken(conn[VaultUser])
                 THEN WaiterReturnsStored(p)
                 ELSE WaiterGoesOnOrTimesOut(p)]_vars

\* C21, amended: the same, a poll ending the call with the stored token
\* when it sees a row with expires_at more than the safety margin (60 s) in
\* the future and the token fields present.
C21_WaiterSucceedsBeyondMargin ==
    [][\A p \in Procs :
          WaiterStep(p) =>
              /\ WaiterPassive(p)
              /\ IF /\ conn[VaultUser] # NoRow
                    /\ conn[VaultUser].expires_at > now + SAFETY_MARGIN
                    /\ HasAccessToken(conn[VaultUser])
                 THEN WaiterReturnsStored(p)
                 ELSE WaiterGoesOnOrTimesOut(p)]_vars

\* C21 witness: a waiter has ended with ConcurrentRefreshTimeout while the
\* row holds a token that expires in the future but within the margin, and
\* the refresh it waited for is still in flight, holding the lock
C21_Witness ==
    \E p, q \in Procs :
        /\ Returned(p)
        /\ hist[p].waited
        /\ Threw(proc[p].result, "ConcurrentRefreshTimeout")
        /\ HasAccessToken(conn[VaultUser])
        /\ conn[VaultUser].expires_at > now
        /\ conn[VaultUser].expires_at <= now + SAFETY_MARGIN
        /\ lock[VaultUser] = <<q>>
        /\ proc[q].pc \in LockSection

\* the state row s is stored, unconsumed and unexpired
Outstanding(s) ==
    /\ oauth_states[s] # NoState
    /\ ~oauth_states[s].consumed
    /\ oauth_states[s].expires_at >= now

\* C22: every buildAuthorizationUrl call creates a new state row and leaves
\* the others as they are; an outstanding (stored, unconsumed, unexpired)
\* state row changes only when its own validation marks it consumed, so
\* validating, consuming and cleaning up another state of the same user
\* (handleCallback's deletion of the consumed rows included) leaves it
\* unchanged; and a validation that finds its state outstanding and owned by
\* the session user returns the verifier of that state, once.
C22_OutstandingStatesIndependent ==
    [][/\ \A s \in StateIds :
            (Outstanding(s) /\ oauth_states'[s] # oauth_states[s]) =>
                \E p \in Procs :
                    /\ proc[p].pc = "v_update"
                    /\ proc[p].state = s
                    /\ oauth_states'[s] = [oauth_states[s] EXCEPT !.consumed = TRUE]
       /\ stateSeq' # stateSeq =>
            /\ stateSeq' = stateSeq + 1
            /\ oauth_states[stateSeq'] = NoState
            /\ oauth_states'[stateSeq'] # NoState
            /\ ~oauth_states'[stateSeq'].consumed
            /\ oauth_states'[stateSeq'].expires_at >= now
            /\ \A s \in StateIds \ {stateSeq'} : oauth_states'[s] = oauth_states[s]
       /\ \A p \in Procs :
            (/\ proc[p].pc \in {"idle", "v_update"}
             /\ proc'[p].pc \in {"return", "h_exchange"}
             /\ proc'[p].op \in {"validateCallbackState", "handleCallback"}
             /\ hist'[p].found /\ ~hist'[p].consumed /\ ~hist'[p].expired
             /\ hist'[p].owner)
                => /\ proc[p].pc = "v_update"
                   /\ verifiers'[proc[p].state] = 1
                   /\ proc'[p].pc = "return"
                        => proc'[p].result = Ok(proc[p].state)]_vars

\* C22 witness: a handleCallback has returned after deleting the consumed
\* state rows of its user, and another state of that user is still
\* outstanding
C22_Witness ==
    \E p \in Procs, s \in StateIds :
        /\ Returned(p)
        /\ proc[p].op = "handleCallback"
        /\ IsOk(proc[p].result)
        /\ proc[p].state # s
        /\ oauth_states[proc[p].state] = NoState
        /\ Outstanding(s)
        /\ oauth_states[s].user_id = proc[p].sessionUserId

StateOwnershipMismatch ==
    OAuthStateError(<<"State", "does", "not", "belong", "to", "this", "session">>)

\* a validation of task p, made with a session user other than the owner of
\* the state row it found, has ended
ForeignValidationEnded(p) ==
    /\ ValidationEnded(p)
    /\ hist[p].found
    /\ ~hist[p].owner

\* what C23 as stated holds of such a validation
ForeignGetsMismatch(p) ==
    /\ proc[p].result = Err(StateOwnershipMismatch)
    /\ ~hist[p].expired =>
          /\ oauth_states[proc[p].state] # NoState
          /\ ~oauth_states[proc[p].state].consumed

\* what the code does in such a validation
ForeignNeverGetsVerifier(p) ==
    /\ verifiers[proc[p].state] = (IF hist[p].afterSuccess THEN 1 ELSE 0)
    /\ IF hist[p].consumed
       THEN /\ proc[p].result = Err(ReplayDetected)
            /\ oauth_states[proc[p].state] # NoState
       ELSE IF hist[p].expired
       THEN /\ proc[p].result = Err(StateExpired)
            /\ oauth_states[proc[p].state] = NoState
       ELSE /\ proc[p].result = Err(StateOwnershipMismatch)
            /\ Outstanding(proc[p].state)

\* C23 as stated: a validation made with a session user other than the
\* state's user_id ends with the ownership-mismatch error, returns no
\* verifier, and leaves an unexpired row stored and unconsumed.
C23_ForeignSessionGetsMismatch ==
    [][\A p \in Procs :
          (~ForeignValidationEnded(p) /\ ForeignValidationEnded(p)')
              => ForeignGetsMismatch(p)']_vars

\* C23, amended: a validation made with a session user other than the
\* state's user_id returns no verifier and does not consume the row; it
\* ends with the replay error when the row is consumed, with the expiry
\* error (the row deleted) when it is expired, and otherwise with the
\* ownership-mismatch error, the row left stored, unconsumed and unexpired.
C23_ForeignSessionNeverGetsVerifier ==
    [][\A p \in Procs :
          (~ForeignValidationEnded(p) /\ ForeignValidationEnded(p)')
              => ForeignNeverGetsVerifier(p)']_vars

\* C23 witness: a validation of a stored, unconsumed, unexpired state by a
\* session user other than its owner has failed with the ownership-mismatch
\* error
C23_Witness ==
    \E p \in Procs :
        /\ ForeignValidationEnded(p)
        /\ proc[p].op = "validateCallbackState"
        /\ proc[p].result = Err(StateOwnershipMismatch)
        /\ Outstanding(proc[p].state)
        /\ oauth_states[proc[p].state].user_id # proc[p].sessionUserId

ExchangeFailed(p) ==
    /\ Returned(p)
    /\ proc[p].op = "handleCallback"
    /\ hist[p].exchange # NoFailure

\* C25: a handleCallback whose code exchange failed ends in a
\* TokenExchangeError; for a network failure the envelope the route sends
\* has retryable = true, for a non-2xx answer of the token endpoint it has
\* retryable = false and the message carries the upstream error description
C25_ExchangeFailureRetryability ==
    \A p \in Procs :
        ExchangeFailed(p) =>
            /\ Threw(proc[p].result, "TokenExchangeError")
            /\ hist[p].exchange.kind = "network"
                => handleRouteError(proc[p].result.err).retryable
            /\ hist[p].exchange.kind = "status"
                => /\ ~handleRouteError(proc[p].result.err).retryable
                   /\ hist[p].exchange.error_description # ""
                        => Includes(proc[p].result.err.message,
                                    hist[p].exchange.error_description)


\* ------------------------------------------------------- OAuth discovery

OAuthDiscoveryError(message) ==
    AppError("OAuthDiscoveryError", 502, "notion_unavailable", TRUE, message)

\* AuthorizationServerMetadata; "" stands for a missing endpoint, {} for a
\* missing code_challenge_methods_supported
ASMetadata(issuer, authorization_endpoint, token_endpoint, methods) ==
    [issuer |-> issuer, authorization_endpoint |-> authorization_endpoint,
     token_endpoint |-> token_endpoint,
     code_challenge_methods_supported |-> methods]

\* the endpoints discovery.service.ts falls back to
notionMetadata ==
    ASMetadata("https://api.notion.com",
               "https://api.notion.com/v1/oauth/authorize",
               "https://api.notion.com/v1/oauth/token", {"S256"})

\* the documents an authorization server may publish
ASMetadatas ==
    { ASMetadata("as", "as/authorize", "as/token", {"S256", "plain"}),
      ASMetadata("as", "", "as/token", {"S256"}),
      ASMetadata("as", "as/authorize", "", {"S256"}),
      ASMetadata("as", "as/authorize", "as/token", {"plain"}),
      ASMetadata("as", "as/authorize", "as/token", {}) }

\* the checks both modules make on a fetched document
MissingEndpoint(metadata) ==
    metadata.authorization_endpoint = "" \/ metadata.token_endpoint = ""
SupportsS256(metadata) == "S256" \in metadata.code_challenge_methods_supported

\* the answers to the GET of the protected resource metadata
ResourceOutcomes == {"network", "status", "no_servers", "ok"}
\* the answers to the GET of the authorization server metadata
ASOutcomes ==
    {[kind |-> "network"], [kind |-> "status"]}
        \cup {[kind |-> "ok", metadata |-> m] : m \in ASMetadatas}

\* cachedMetadata = metadata; cacheExpiresAt = Date.now() + TTL
cacheMetadata(module, metadata) ==
    metadataCache' = [metadataCache EXCEPT ![module] =
        [cachedMetadata |-> metadata,
         cacheExpiresAt |-> now + OAUTH_METADATA_CACHE_TTL]]

\* discoverOAuthMetadata returns metadata, which it has cached
DiscoverReturn(p, metadata, seen) ==
    /\ Move(p, [proc[p] EXCEPT !.pc = "return", !.metadata = metadata],
               [hist[p] EXCEPT !.discovery = seen])
    /\ cacheMetadata(proc[p].module, metadata)

\* discoverOAuthMetadata throws
DiscoverThrow(p, message, seen) ==
    /\ Move(p, [proc[p] EXCEPT !.pc = "return",
                               !.result = Err(OAuthDiscoveryError(message))],
               [hist[p] EXCEPT !.discovery = seen])
    /\ UNCHANGED metadataCache

\* discoverOAuthMetadata: the cached metadata while it is valid, else the
\* GET of the protected resource metadata is sent
StartDiscover(p, module) ==
    /\ proc[p].pc = "idle"
    /\ LET c == metadataCache[module]
           pr == [Fresh("discoverOAuthMetadata") EXCEPT !.module = module]
       IN  IF c.cachedMetadata # NoMetadata /\ now < c.cacheExpiresAt
           THEN Move(p, [pr EXCEPT !.pc = "return",
                                   !.metadata = c.cachedMetadata],
                        [Started EXCEPT !.discovery = "cached"])
           ELSE Move(p, [pr EXCEPT !.pc = "d_resource"], Started)
    /\ UNCHANGED <<now, conn, cache, lock, issued, ivSeq, flags,
                   oauth_states, stateSeq, verifiers, metadataCache>>

\* the answer to the first GET: discovery.service.ts falls back to the
\* hardcoded endpoints unless an authorization server is declared, the
\* strict module throws
DiscoverResource(p) ==
    /\ proc[p].pc = "d_resource"
    /\ \E outcome \in ResourceOutcomes :
         IF outcome = "ok"
         THEN /\ Go(p, [proc[p] EXCEPT !.pc = "d_as"])
              /\ UNCHANGED metadataCache
         ELSE IF proc[p].module = "strict"
         THEN DiscoverThrow(p,
                  IF outcome = "network"
                  THEN <<"Network", "error", "fetching", "resource", "metadata">>
                  ELSE IF outcome = "status"
                  THEN <<"Resource", "metadata", "returned", "503">>
                  ELSE <<"No", "authorization", "server", "declared">>,
                  outcome)
         ELSE DiscoverReturn(p, notionMetadata, outcome)
    /\ UNCHANGED <<now, conn, cache, lock, issued, ivSeq, flags,
                   oauth_states, stateSeq, verifiers>>

\* the answer to the second GET and the validation of the document
DiscoverAS(p) ==
    /\ proc[p].pc = "d_as"
    /\ \E outcome \in ASOutcomes :
         LET seen == IF outcome.kind # "ok" THEN outcome.kind
                     ELSE IF MissingEndpoint(outcome.metadata)
                             \/ ~SupportsS256(outcome.metadata)
                     THEN "defect" ELSE "ok"
         IN  IF seen = "ok"
             THEN DiscoverReturn(p, outcome.metadata, seen)
             ELSE IF proc[p].module = "strict"
             THEN DiscoverThrow(p,
                      IF seen = "network"
                      THEN <<"Network", "error", "fetching", "AS", "metadata">>
                      ELSE IF seen = "status"
                      THEN <<"AS", "metadata", "returned", "503">>
                      ELSE IF outcome.metadata.authorization_endpoint = ""
                      THEN <<"Missing", "authorization_endpoint">>
                      ELSE IF outcome.metadata.token_endpoint = ""
                      THEN <<"Missing", "token_endpoint">>
                      ELSE <<"AS", "does", "not", "support", "S256">>,
                      seen)
             ELSE DiscoverReturn(p, notionMetadata, seen)
    /\ UNCHANGED <<now, conn, cache, lock, issued, ivSeq, flags,
                   oauth_states, stateSeq, verifiers>>

\* clearMetadataCache
clearMetadataCache(module) ==
    /\ metadataCache' = [metadataCache EXCEPT ![module] = EmptyMetadataCache]
    /\ UNCHANGED <<now, conn, cache, lock, issued, ivSeq, proc, hist, flags,
                   oauth_states, stateSeq, verifiers>>

\* discoverOAuthMetadata calls of both modules, one after the other, the
\* provider answering in every way, the cache cleared at any time, and the
\* clock moving on in half lifetimes of the cache
DiscoveryStep(p) ==
    \/ \E module \in DiscoveryModules : StartDiscover(p, module)
    \/ DiscoverResource(p)
    \/ DiscoverAS(p)
    \/ Return(p)

DiscoveryNext ==
    \/ DiscoveryStep(1)
    \/ \E module \in DiscoveryModules : clearMetadataCache(module)
    \/ Tick(MaxTimeDiscovery, OAUTH_METADATA_CACHE_TTL \div 2)

SpecDiscovery == Init /\ [][DiscoveryNext]_vars

\* the discoverOAuthMetadata invocation p has returned
DiscoverEnded(p) == Returned(p) /\ proc[p].op = "discoverOAuthMetadata"

\* C26: a discoverOAuthMetadata call that met a network failure ends in an
\* error whose envelope is retryable with the code of an unavailable
\* provider; one that fetched a document without authorization_endpoint,
\* without token_endpoint or without S256 ends in an error whose envelope is
\* not retryable; a document with such a defect is never returned and never
\* in the cache
C26_DiscoveryFailuresClassified ==
    /\ \A module \in DiscoveryModules :
         LET m == metadataCache[module].cachedMetadata
         IN  m # NoMetadata => ~MissingEndpoint(m) /\ SupportsS256(m)
    /\ \A p \in Procs :
         DiscoverEnded(p) =>
            /\ IsOk(proc[p].result)
                 => /\ ~MissingEndpoint(proc[p].metadata)
                    /\ SupportsS256(proc[p].metadata)
            /\ hist[p].discovery = "network"
                 => /\ ~IsOk(proc[p].result)
                    /\ handleRouteError(proc[p].result.err).retryable
                    /\ handleRouteError(proc[p].result.err).code
                         = "notion_unavailable"
            /\ hist[p].discovery = "defect"
                 => /\ ~IsOk(proc[p].result)
                    /\ ~handleRouteError(proc[p].result.err).retryable


\* -------------------------------------------------------- CSRF middleware

ForbiddenError(message) ==
    AppError("ForbiddenError", 403, "internal_error", FALSE, message)

\* a URL as text: scheme, host, port ("" when none is written) and path
Url(scheme, host, port, path) ==
    [scheme |-> scheme, host |-> host, port |-> port, path |-> path]
Malformed == [malformed |-> TRUE]

\* new URL(text).origin: scheme, host and port, the default port of the
\* scheme left out; the path is dropped
DefaultPort(scheme) == IF scheme = "https" THEN "443" ELSE "80"
SerializeOrigin(scheme, host, port) ==
    <<scheme, host, IF port = DefaultPort(scheme) THEN "" ELSE port>>
URLOrigin(url) == SerializeOrigin(url.scheme, url.host, url.port)

\* env.APP_URL and the origin the middleware allows
APP_URL == Url("https", "app.example.com", "443", "/")
allowedOrigin == URLOrigin(APP_URL)

\* req.method.toUpperCase()
ToUpperCase(method) == IF method = "delete" THEN "DELETE" ELSE method
SAFE == {"GET", "HEAD", "OPTIONS"}

\* the requests the model draws from: an Origin header is the text of an
\* origin, a Referer header the text of a URL or not a URL at all
Methods == {"GET", "HEAD", "OPTIONS", "POST", "PUT", "PATCH", "DELETE", "delete"}
OriginHeaders ==
    {NULL, <<"https", "app.example.com", "">>, <<"https", "evil.example", "">>,
     <<"http", "app.example.com", "">>, <<"null">>}
RefererHeaders ==
    {NoReferer, Malformed,
     Url("https", "app.example.com", "", "/settings"),
     Url("https", "evil.example", "", "/app.example.com"),
     Url("https", "app.example.com", "8443", "/")}
Requests ==
    [method : Methods, origin : OriginHeaders, referer : RefererHeaders]
NodeEnvs == {"development", "staging", "production"}

\* csrfProtection: Ok when next() is called, ForbiddenError when reject(res)
\* answers 403
csrfProtection(req, nodeEnv) ==
    IF ToUpperCase(req.method) \in SAFE THEN Ok(0)
    ELSE IF req.origin # NULL
    THEN IF req.origin = allowedOrigin THEN Ok(0)
         ELSE Err(ForbiddenError(<<"Invalid", "request", "origin">>))
    ELSE IF req.referer # NoReferer
    THEN IF req.referer # Malformed /\ URLOrigin(req.referer) = allowedOrigin
         THEN Ok(0)
         ELSE Err(ForbiddenError(<<"Invalid", "request", "origin">>))
    ELSE IF nodeEnv = "production"
    THEN Err(ForbiddenError(<<"Invalid", "request", "origin">>))
    ELSE Ok(0)

\* a request passes through the middleware
CsrfProtection(p) ==
    /\ proc[p].pc = "idle"
    /\ \E req \in Requests, nodeEnv \in NodeEnvs :
         Move(p, [Fresh("csrfProtection") EXCEPT
                    !.pc = "return", !.req = req, !.NODE_ENV = nodeEnv,
                    !.result = csrfProtection(req, nodeEnv)],
                 Started)
    /\ UNCHANGED <<now, conn, cache, lock, issued, ivSeq, flags>>
    /\ UNCHANGED oauthVars

\* every request under every NODE_ENV, one after the other
CsrfNext == CsrfProtection(1) \/ Return(1)

SpecCsrf == Init /\ [][CsrfNext]_vars

\* the origin a request declares: the Origin header, else the origin of
\* the Referer, else none
DeclaredOrigin(req) ==
    IF req.origin # NULL THEN req.origin
    ELSE IF req.referer # NoReferer /\ req.referer # Malformed
    THEN URLOrigin(req.referer)
    ELSE NULL

\* C27: a request with a method other than GET, HEAD, OPTIONS passes
\* csrfProtection only if its declared origin is the origin of APP_URL;
\* every other such request, one without Origin and Referer included, is
\* answered 403, whatever NODE_ENV is
C27_MutatingNeedsAllowedOrigin ==
    \A p \in Procs :
        /\ Returned(p)
        /\ proc[p].op = "csrfProtection"
        /\ proc[p].req.method \notin SAFE
        => IF DeclaredOrigin(proc[p].req) = allowedOrigin
           THEN IsOk(proc[p].result)
           ELSE /\ ~IsOk(proc[p].result)
                /\ handleRouteError(proc[p].result.err).status = 403


\* ------------------------------------------------------------ AES-256-GCM

\* Buffer.from(text, "utf8") for code points below U+0800
RECURSIVE Utf8Encode(_)
Utf8Encode(text) ==
    IF text = <<>> THEN <<>>
    ELSE (IF text[1] < 128 THEN <<text[1]>>
          ELSE <<192 + (text[1] \div 64), 128 + (text[1] % 64)>>)
         \o Utf8Encode(Tail(text))

\* buffer.toString("utf8"): a byte that begins no valid sequence becomes
\* U+FFFD
RECURSIVE Utf8Decode(_)
Utf8Decode(bytes) ==
    IF bytes = <<>> THEN <<>>
    ELSE IF bytes[1] < 128 THEN <<bytes[1]>> \o Utf8Decode(Tail(bytes))
    ELSE IF /\ bytes[1] \in 194..223
            /\ Len(bytes) >= 2
            /\ bytes[2] \in 128..191
    THEN <<(bytes[1] - 192) * 64 + (bytes[2] - 128)>>
         \o Utf8Decode(Tail(Tail(bytes)))
    ELSE <<65533>> \o Utf8Decode(Tail(bytes))

\* lengths in bytes: the key and the authentication tag
KEY_LENGTH == 32
AUTH_TAG_LENGTH == 16

\* Buffer.from(keyBase64, "base64"): a key is known by its bytes
Key(id, length) == [id |-> id, length |-> length]
Keys == {Key(1, KEY_LENGTH), Key(2, KEY_LENGTH), Key(3, 16)}
\* crypto.randomBytes(12): the nonces the model draws from
IVs == {1, 2}
\* the secrets the model encrypts: "", "a", "é" and their pairs
MaxSecretLen == 2
Plaintexts ==
    UNION {[1..n -> {97, 233}] : n \in 0..MaxSecretLen}

\* the counter-mode key stream of AES-GCM at byte i
KeyStream(key, iv, i) == (key.id * 7 + iv * 13 + i * 3) % 256

\* cipher.update / cipher.final: every byte combined with the key stream
CipherBytes(bytes, key, iv) ==
    [i \in DOMAIN bytes |-> [b |-> (bytes[i] + KeyStream(key, iv, i)) % 256]]
DecipherBytes(encrypted, key, iv) ==
    [i \in DOMAIN encrypted |->
        (encrypted[i].b + 256 - KeyStream(key, iv, i)) % 256]

\* cipher.getAuthTag: 16 bytes that only the same key, nonce and encrypted
\* bytes give again
AuthTag(encrypted, key, iv) ==
    [j \in 1..AUTH_TAG_LENGTH |->
        [mac |-> <<key.id, iv, encrypted>>, at |-> j]]

KeyLengthError == [err |-> "Encryption key must be exactly 32 bytes"]
AuthenticationError ==
    [err |-> "Unsupported state or unable to authenticate data"]

\* encryptAES256GCM with the nonce randomBytes gave
encryptAES256GCM(plaintext, key, iv) ==
    IF key.length # KEY_LENGTH THEN KeyLengthError
    ELSE LET encrypted == CipherBytes(Utf8Encode(plaintext), key, iv)
             authTag == AuthTag(encrypted, key, iv)
         IN  [ciphertext |-> encrypted \o authTag, iv |-> iv,
              authTag |-> authTag]

\* a faulty variant of decryptAES256GCM: the tag is split off but final()
\* does not compare it
decryptAES256GCMUnverified(ciphertextWithTag, iv, key) ==
    IF key.length # KEY_LENGTH THEN KeyLengthError
    ELSE LET n == Len(ciphertextWithTag) - AUTH_TAG_LENGTH
             encrypted == SubSeq(ciphertextWithTag, 1, n)
         IN  [text |-> Utf8Decode(DecipherBytes(encrypted, key, iv))]

\* decryptAES256GCM: the last 16 bytes are the tag, decipher.final() throws
\* unless the tag is the one of key, nonce and encrypted bytes
decryptAES256GCM(ciphertextWithTag, iv, key) ==
    IF key.length # KEY_LENGTH THEN KeyLengthError
    ELSE LET n == Len(ciphertextWithTag) - AUTH_TAG_LENGTH
             encrypted == SubSeq(ciphertextWithTag, 1, n)
             authTag == SubSeq(ciphertextWithTag, n + 1, Len(ciphertextWithTag))
         IN  IF authTag = AuthTag(encrypted, key, iv)
             THEN [text |-> Utf8Decode(DecipherBytes(encrypted, key, iv))]
             ELSE AuthenticationError

\* the buffers that differ from buffer in one byte, and those that carry
\* the tag or the encrypted bytes of another encryption under the same key
AlteredByte(byte) ==
    IF "b" \in DOMAIN byte
    THEN {[b |-> (byte.b + 1) % 256], [b |-> (byte.b + 128) % 256]}
    ELSE {[b |-> 0], [byte EXCEPT !.mac = <<0, 0, <<>>>>]}
Altered(result, key) ==
    {[result.ciphertext EXCEPT ![i] = byte] :
        i \in DOMAIN result.ciphertext,
        byte \in UNION {AlteredByte(result.ciphertext[j]) :
                           j \in DOMAIN result.ciphertext}}
    \ {result.ciphertext}

\* encryptAES256GCM(plaintext, key)
Encrypt(p) ==
    /\ proc[p].pc = "idle"
    /\ \E plaintext \in Plaintexts, key \in Keys, iv \in IVs :
         LET result == encryptAES256GCM(plaintext, key, iv)
             pr == [Fresh("encryptAES256GCM") EXCEPT
                      !.crypto = [plaintext |-> plaintext, key |-> key,
                                  result |-> result]]
         IN  Move(p, [pr EXCEPT !.pc = IF result = KeyLengthError
                                       THEN "return" ELSE "c_decrypt"],
                     Started)
    /\ UNCHANGED <<now, conn, cache, lock, issued, ivSeq, flags>>
    /\ UNCHANGED oauthVars

\* decryptAES256GCM of the stored buffer or an altered one, with any nonce
\* and key
Decrypt(p) ==
    /\ proc[p].pc = "c_decrypt"
    /\ LET c == proc[p].crypto
       IN  \E ciphertext \in {c.result.ciphertext} \cup Altered(c.result, c.key),
              iv \in IVs, key \in Keys :
             Go(p, [proc[p] EXCEPT
                      !.pc = "return", !.op = "decryptAES256GCM",
                      !.crypto =
                          [plaintext |-> c.plaintext, key |-> c.key,
                           result |-> c.result,
                           given |-> [ciphertext |-> ciphertext, iv |-> iv,
                                      key |-> key],
                           out |-> decryptAES256GCM(ciphertext, iv, key)]])
    /\ UNCHANGED <<now, conn, cache, lock, issued, ivSeq, flags>>
    /\ UNCHANGED oauthVars

\* every secret of the model encrypted under every key and nonce, then
\* decrypted from the same or an altered buffer
CryptoNext == Encrypt(1) \/ Decrypt(1) \/ Return(1)

SpecCrypto == Init /\ [][CryptoNext]_vars

\* the decryption p has made, of what was encrypted under a valid key
Decrypted(p) == Returned(p) /\ proc[p].op = "decryptAES256GCM"

\* the decryption was given what the encryption returned, and its key
SameInputs(c) ==
    /\ c.given.ciphertext = c.result.ciphertext
    /\ c.given.iv = c.result.iv
    /\ c.given.key = c.key

\* C28: decrypting what encryptAES256GCM returned, with the same valid key,
\* gives the plaintext back; decrypting with another key, another nonce or
\* a buffer altered in a byte of the ciphertext or of the tag throws and
\* returns no string (an ideal authentication tag is assumed)
C28_RoundTripAndTamperRejected ==
    \A p \in Procs :
        Decrypted(p) =>
            LET c == proc[p].crypto
            IN  IF SameInputs(c)
                THEN c.out = [text |-> c.plaintext]
                ELSE "text" \notin DOMAIN c.out

\* C28 witness: a two-character secret with a non-ASCII character has been
\* decrypted from a buffer altered in one byte, and the call threw
C28_Witness ==
    \E p \in Procs :
        /\ Decrypted(p)
        /\ proc[p].crypto.plaintext = <<233, 97>>
        /\ proc[p].crypto.given.ciphertext # proc[p].crypto.result.ciphertext
        /\ proc[p].crypto.given.key = proc[p].crypto.key
        /\ proc[p].crypto.given.iv = proc[p].crypto.result.iv
        /\ proc[p].crypto.out = AuthenticationError


\* C29: an executeNotionOperation call whose first upstream call was not
\* answered 401 (the operation was rejected before the call, or the answer
\* had another status) makes no forced refresh and no second upstream call,
\* whatever the operation name or the upstream error body says
C29_RefreshOnlyAfter401 ==
    \A p \in Procs :
        ExecEnded(p) /\ ~hist[p].first401 =>
            /\ hist[p].forced = 0
            /\ hist[p].upstream <= 1


\* C30: while no call is in flight, access_token:{userId} holds a token only
\* if the user's Connection is active, and then the token is the plaintext
\* of the access token stored in the row
C30_CacheCoherent ==
    (\A p \in Procs : ~InFlight(p)) =>
        \A u \in Users :
            CacheGet(u) # 0 =>
                /\ conn[u] # NoRow
                /\ conn[u].status = "active"
                /\ HasAccessToken(conn[u])
                /\ CacheGet(u) = StoredAccessToken(conn[u])


\* ------------------------------------------- failures after a 2xx answer

\* the catch inside the retry loop for an error that is neither
\* ReconnectionRequired nor TokenRefreshError: sleep, then the next attempt;
\* after the last attempt the loop ends and TokenRefreshError is thrown
CatchRetry(pr) ==
    LET elapsed == Elapse(pr.elapsed, Sleep(BackoffDelay(pr.attempt)))
    IN  IF pr.attempt + 1 < TOKEN_REFRESH_MAX_RETRIES
        THEN [pr EXCEPT !.pc = "r_fetch", !.attempt = @ + 1,
                        !.elapsed = elapsed]
        ELSE [pr EXCEPT !.pc = "r_release", !.elapsed = elapsed,
                        !.pending = Err(TokenRefreshError)]

\* the token endpoint answers 2xx and response.json() rejects (the body is
\* cut off or is not JSON): the provider has issued its tokens
RefreshBodyFail(p) ==
    /\ proc[p].pc = "r_fetch"
    /\ issued < MaxIssued
    /\ Move(p, CatchRetry(proc[p]),
            [hist[p] EXCEPT !.fetches = @ + 1, !.answered = TRUE,
                            !.failed = TRUE])
    /\ issued' = issued + 1
    /\ UNCHANGED <<now, conn, cache, lock, ivSeq, flags>>
    /\ UNCHANGED oauthVars

\* updateTokensAfterRefresh rejects (the database is unreachable): the row
\* is unchanged
RefreshPersistFail(p) ==
    /\ proc[p].pc = "r_persist"
    /\ Move(p, CatchRetry(proc[p]), [hist[p] EXCEPT !.failed = TRUE])
    /\ UNCHANGED <<now, conn, cache, lock, issued, ivSeq, flags>>
    /\ UNCHANGED oauthVars

\* redis.del(access_token:{userId}) rejects after the row was updated
RefreshInvalidateFail(p) ==
    /\ proc[p].pc = "r_del"
    /\ Move(p, CatchRetry(proc[p]), [hist[p] EXCEPT !.failed = TRUE])
    /\ UNCHANGED <<now, conn, cache, lock, issued, ivSeq, flags>>
    /\ UNCHANGED oauthVars

\* one task calling refreshAccessToken again and again on a stored
\* connection, the steps after a 2xx answer failing at any point
FaultStep(p) ==
    \/ StartRefresh(p)
    \/ RefreshLoad(p)
    \/ RefreshNoToken(p)
    \/ RefreshFetchOk(p, ExpiresInNoClock)
    \/ RefreshFetchInvalidGrant(p)
    \/ RefreshFetchRetry(p, RetryAfterHeaders)
    \/ RefreshFetchError(p)
    \/ RefreshBodyFail(p)
    \/ RefreshPersist(p)
    \/ RefreshPersistFail(p)
    \/ RefreshInvalidate(p)
    \/ RefreshInvalidateFail(p)
    \/ RefreshRevoke(p)
    \/ RefreshRevokeInvalidate(p)
    \/ RefreshReleaseGet(p)
    \/ RefreshReleaseDel(p)
    \/ Return(p)

FaultNext == FaultStep(1) \/ LockExpire

SpecFault == InitConnected /\ [][FaultNext]_vars

\* C31: a refreshAccessToken invocation that has had a 2xx answer from the
\* token endpoint makes no further token endpoint call, also when reading
\* the body, updateTokensAfterRefresh or the cache deletion fails
C31_NoFetchAfterSuccessAnswer ==
    [][\A p \in Procs :
          (/\ proc[p].op = "refreshAccessToken"
           /\ hist'[p].fetches > hist[p].fetches)
          => ~hist[p].answered]_vars


\* the step in which task p persists the tokens of a 2xx answer
Persisted(p) == proc[p].pc = "r_persist" /\ proc'[p].pc = "r_del"

\* C32: the step that persists a successful refresh leaves in the row the
\* access token and the refresh token of the provider's response, each under
\* a nonce not used before and different from the other; when the response
\* has no refresh token the refresh token columns become null
C32_RefreshStoresResponseTokens ==
    [][\A p \in Procs :
          Persisted(p) =>
            LET tokenData == proc[p].tokenData
                row == conn'[VaultUser]
            IN  /\ StoredAccessToken(row) = tokenData.access_token
                /\ row.access_token_iv > ivSeq
                /\ IF tokenData.refresh_token # 0
                   THEN /\ StoredRefreshToken(row) = tokenData.refresh_token
                        /\ row.refresh_token_iv > ivSeq
                        /\ row.refresh_token_iv # row.access_token_iv
                   ELSE /\ row.encrypted_refresh_token = NULL
                        /\ ~HasRefreshToken(row)]_vars

\* C32 witness: a refresh of a connection that had a refresh token has
\* persisted a response without one, and the row has no refresh token
C32_Witness ==
    \E p \in Procs :
        /\ proc[p].pc = "r_del"
        /\ hist[p].hadRefresh
        /\ proc[p].tokenData.refresh_token = 0
        /\ StoredAccessToken(conn[VaultUser]) = proc[p].tokenData.access_token
        /\ ~HasRefreshToken(conn[VaultUser])


\* the provider issues one token more than in the other specifications, so
\* that a storeTokens follows a refresh
MaxIssuedCount == MaxIssued + 1

\* one task, one call after the other: storeTokens, refreshAccessToken with
\* every answer of the token endpoint, getValidAccessToken and disconnect
CountStep(p) ==
    \/ StartStoreUpTo(p, ExpiresInNoClock, MaxIssuedCount)
    \/ StoreInvalidate(p)
    \/ StartDisconnect(p)
    \/ DisconnectInvalidate(p)
    \/ StartGet(p)
    \/ GetLoad(p)
    \/ GetSetex(p)
    \/ StartRefresh(p)
    \/ RefreshLoad(p)
    \/ RefreshNoToken(p)
    \/ RefreshFetchOkUpTo(p, ExpiresInNoClock, MaxIssuedCount)
    \/ RefreshFetchInvalidGrant(p)
    \/ RefreshFetchRetry(p, RetryAfterHeaders)
    \/ RefreshFetchError(p)
    \/ RefreshPersist(p)
    \/ RefreshInvalidate(p)
    \/ RefreshRevoke(p)
    \/ RefreshRevokeInvalidate(p)
    \/ RefreshReleaseGet(p)
    \/ RefreshReleaseDel(p)
    \/ Return(p)

CountNext == CountStep(1) \/ LockExpire

SpecCount == Init /\ [][CountNext]_vars

\* C33: the refresh_count of a Connection row is the number of refreshes
\* persisted since storeTokens last wrote the row: storeTokens sets it to 0,
\* every persisted refresh adds 1, nothing else changes it
C33_RefreshCountCounts ==
    \A u \in Users :
        conn[u] # NoRow => conn[u].refresh_count = flags[u].persisted

\* C33 witness: a row has been refreshed once since storeTokens wrote it
\* and was then disconnected; its count is still 1
C33_Witness ==
    /\ conn[VaultUser] # NoRow
    /\ conn[VaultUser].status = "disconnected"
    /\ conn[VaultUser].refresh_count = 1
    /\ flags[VaultUser].disconnected
    /\ \A p \in Procs : ~InFlight(p)


\* C34: token_refresh:{userId} holds the owner token of a task only while
\* that task's refreshAccessToken invocation is between its lock
\* acquisition and the end of its release step: once the invocation has
\* ended, with a token or with any error, the key does not hold its token
C34_LockReleasedOnEveryExit ==
    \A p \in Procs :
        lock[VaultUser] = <<p>> => proc[p].pc \in LockSection

\* C34 witness: a refreshAccessToken invocation that took the lock and
\* called the token endpoint has ended with TokenRefreshError, and the key
\* is gone
C34_Witness ==
    \E p \in Procs :
        /\ Returned(p)
        /\ proc[p].op = "refreshAccessToken"
        /\ ~hist[p].waited
        /\ hist[p].fetches > 0
        /\ Threw(proc[p].result, "TokenRefreshError")
        /\ lock[VaultUser] = NULL


\* ------------------------------------------- a lock left behind (C35)

\* the process running the lock holder dies at one of its awaits: the
\* invocation never reaches its finally block, the key stays with the rest of
\* its TTL; the task is free again once the process has restarted
HolderCrash(p) ==
    /\ lock[VaultUser] = <<p>>
    /\ proc[p].pc \in LockSection
    /\ ~LockOverdue
    /\ lock' = [lock EXCEPT ![VaultUser] = Stopped(proc[p].elapsed)]
    /\ Move(p, IdleProc, IdleHist)
    /\ UNCHANGED <<now, conn, cache, issued, ivSeq, flags>>
    /\ UNCHANGED oauthVars

\* finally: redis.get or redis.del rejects (connection lost): the rejection
\* replaces the pending outcome and the key stays with the rest of its TTL
RefreshReleaseFail(p) ==
    /\ lock[VaultUser] = <<p>>
    /\ proc[p].pc \in {"r_release", "r_release_del"}
    /\ ~LockOverdue
    /\ lock' = [lock EXCEPT ![VaultUser] = Stopped(proc[p].elapsed)]
    /\ Go(p, Finish(proc[p], Err(PlainError(0, <<"Connection", "is", "closed">>))))
    /\ UNCHANGED <<now, conn, cache, issued, ivSeq, flags>>
    /\ UNCHANGED oauthVars

\* the rest of the TTL of a key left behind passes
KeyTime ==
    /\ lock[VaultUser] # NULL
    /\ lock[VaultUser][1] \notin Procs
    /\ ~LockOverdue
    /\ lock' = [lock EXCEPT ![VaultUser] = Stopped(TOKEN_REFRESH_LOCK_TTL)]
    /\ UNCHANGED <<now, conn, cache, issued, ivSeq, proc, hist, flags>>
    /\ UNCHANGED oauthVars

StoppedStep(p) ==
    \/ RefreshStep(p)
    \/ HolderCrash(p)
    \/ RefreshReleaseFail(p)

StoppedNext == (\E p \in Procs : StoppedStep(p)) \/ KeyTime \/ LockExpire

\* concurrent refreshAccessToken calls whose lock holder may stop without
\* releasing; time goes on and Redis expires the keys whose TTL has run out
SpecStopped ==
    /\ InitConnected
    /\ [][StoppedNext]_vars
    /\ WF_vars(KeyTime)
    /\ WF_vars(LockExpire)

\* the key is held by no invocation that could release it
LeftBehind == lock[VaultUser] # NULL /\ lock[VaultUser][1] \notin Procs

\* C35: a key left behind by a holder that stopped without releasing it is
\* gone after its TTL; a refreshAccessToken that makes its lock attempt when
\* the key is gone takes the lock; and a call that found the key taken ends
\* with a token or with ConcurrentRefreshTimeout
C35_LeftLockExpires ==
    /\ LeftBehind ~> (lock[VaultUser] = NULL)
    /\ [][\A p \in Procs :
            (/\ hist'[p].refreshCalls > hist[p].refreshCalls
             /\ lock[VaultUser] = NULL)
            => (lock'[VaultUser] = <<p>> /\ proc'[p].pc = "r_load")]_vars
    /\ [](\A p \in Procs :
            (Returned(p) /\ hist[p].waited)
            => \/ IsOk(proc[p].result)
               \/ Threw(proc[p].result, "ConcurrentRefreshTimeout"))

\* a call ended with the rejection of its release step, the key it left has
\* expired, and a call started after that holds the lock
C35_Witness ==
    \E p, q \in Procs :
        /\ Returned(p)
        /\ proc[p].result.err.message = <<"Connection", "is", "closed">>
        /\ lock[VaultUser] = <<q>>
        /\ proc[q].pc \in LockSection


\* -------------------------------- a callback that fails after validation

\* storeTokens rejects inside handleCallback: upsertConnection rejects before
\* the row is written, or redis.del rejects after it; handleCallback has no
\* catch, so the call ends there and never reaches its DELETE
HandleStoreFail(p) ==
    /\ proc[p].pc \in {"h_store", "h_store_del"}
    /\ Go(p, ValidateEnd(proc[p],
               Err(PlainError(0, <<"Connection", "terminated", "unexpectedly">>))))
    /\ UNCHANGED <<now, conn, cache, lock, issued, ivSeq, flags>>
    /\ UNCHANGED oauthVars

\* the authorizing user: buildAuthorizationUrl and handleCallback with every
\* outcome of the exchange and of the store
AbandonedStep(p) ==
    \/ BuildAuthorizationUrl(p)
    \/ StartHandleCallback(p)
    \/ ValidateDelete(p)
    \/ ValidateUpdate(p)
    \/ HandleExchangeOk(p)
    \/ HandleExchangeFail(p)
    \/ HandleStore(p)
    \/ HandleStoreInvalidate(p)
    \/ HandleStoreFail(p)
    \/ HandleCleanup(p)
    \/ Return(p)

\* a later caller presenting state values again: validateCallbackState, and
\* handleCallback with a code the token endpoint does not accept
ReplayStep(p) ==
    \/ StartValidate(p)
    \/ StartHandleCallback(p)
    \/ ValidateDelete(p)
    \/ ValidateUpdate(p)
    \/ HandleExchangeFail(p)
    \/ Return(p)

\* the clock passes the expiry of the states generated before
AbandonedNext ==
    \/ AbandonedStep(1)
    \/ ReplayStep(NProcs)
    \/ StateCleanup
    \/ Tick(MaxTimeOAuth, MaxTimeOAuth)

\* an authorizing task whose token endpoint and store may fail, a task that
\* presents state values again, the periodic sweep and the clock
SpecAbandoned == Init /\ [][AbandonedNext]_vars

\* the handleCallback of task p validated its state and then threw at the
\* exchange or at the store step
CallbackFailed(p) ==
    /\ Returned(p)
    /\ proc[p].op = "handleCallback"
    /\ \/ Threw(proc[p].result, "TokenExchangeError")
       \/ proc[p].result.err.message = <<"Connection", "terminated", "unexpectedly">>

\* task q begins a handleCallback or validateCallbackState with the state of
\* the ended call of task p
ValidatesStateOf(q, p) ==
    /\ ~InFlight(q)
    /\ proc'[q].op \in {"handleCallback", "validateCallbackState"}
    /\ proc'[q].state = proc[p].state

ToolNames == OperationNames \cup DOMAIN ObjectPrototype

\* the params of the model: every property absent or present; pageSize also 0,
\* which ?? keeps and a truthiness test drops
ParamSets ==
    [query : {Undefined, Val("notes")},
     pageSize : {Undefined, Val(0), Val(50)},
     startCursor : {Undefined, Val("c1")},
     filter : {Undefined, Val("database")},
     pageId : {Undefined, Val("p1")},
     databaseId : {Undefined, Val("d1")}]

\* a ?? b
Nullish(a, b) == IF a = Undefined THEN b ELSE a

\* if (v) of a string or object property of the model
Truthy(v) == v # Undefined

\* if (v) of a number property
TruthyNumber(v) == v # Undefined /\ v.value # 0

\* searchNotion: POST /search with its body
SearchRequest(query, options) ==
    [method |-> "POST", path |-> <<"/search">>,
     page_size |-> Nullish(options.pageSize, Val(10)),
     query |-> IF Truthy(query) THEN query ELSE Undefined,
     start_cursor |-> IF Truthy(options.startCursor) THEN options.startCursor
                      ELSE Undefined,
     filter |-> IF Truthy(options.filter) THEN options.filter ELSE Undefined]

\* getPage, getDatabase, getBotUser: GET without parameters
GetRequest(path) ==
    [method |-> "GET", path |-> path, page_size |-> Undefined,
     query |-> Undefined, start_cursor |-> Undefined, filter |-> Undefined]

\* the request executeOperation sends for an operation and params; the error
\* it throws when it sends none
UpstreamRequest(operation, params) ==
    IF Rejection(operation, IF operation = "get_page"
                            THEN Truthy(params.pageId)
                            ELSE Truthy(params.databaseId)) # NoError
    THEN [method |-> "none",
          error |-> Rejection(operation, IF operation = "get_page"
                                         THEN Truthy(params.pageId)
                                         ELSE Truthy(params.databaseId))]
    ELSE CASE operation = "search" ->
                  SearchRequest(params.query,
                                [pageSize |-> params.pageSize,
                                 startCursor |-> params.startCursor,
                                 filter |-> params.filter])
           [] operation \in {"search_pages", "list_pages"} ->
                  SearchRequest(params.query,
                                [pageSize |-> Nullish(params.pageSize, Val(20)),
                                 startCursor |-> params.startCursor,
                                 filter |-> Val("page")])
           [] operation \in {"search_databases", "list_databases"} ->
                  SearchRequest(params.query,
                                [pageSize |-> Nullish(params.pageSize, Val(20)),
                                 startCursor |-> params.startCursor,
                                 filter |-> Val("database")])
           [] operation = "get_page" ->
                  GetRequest(<<"/pages/", params.pageId.value>>)
           [] operation = "get_database" ->
                  GetRequest(<<"/databases/", params.databaseId.value>>)
           [] operation = "query_database" ->
                  [method |-> "POST",
                   path |-> <<"/databases/", params.databaseId.value, "/query">>,
                   page_size |-> Nullish(params.pageSize, Val(10)),
                   query |-> Undefined,
                   start_cursor |-> IF Truthy(params.startCursor)
                                    THEN params.startCursor ELSE Undefined,
                   filter |-> IF Truthy(params.filter) THEN params.filter
                              ELSE Undefined]
           [] operation = "get_user" -> GetRequest(<<"/users/me">>)
           [] operation = "list_users" ->
                  [method |-> "GET", path |-> <<"/users">>,
                   page_size |-> IF TruthyNumber(params.pageSize)
                                 THEN params.pageSize ELSE Undefined,
                   query |-> Undefined,
                   start_cursor |-> IF Truthy(params.startCursor)
                                    THEN params.startCursor ELSE Undefined,
                   filter |-> Undefined]

\* executeNotionOperation(userId, operation, params) with a valid token: the
\* name is mapped and executeOperation builds the request
NotionOperationRequest(operation, params) ==
    UpstreamRequest(MappedOperation(operation), params)

\* executeMCPToolCall(userId, toolName, toolArgs), the call of the
\* /notion/query route: the name is mapped, then executeNotionOperation
ExecuteMCPToolCall(p) ==
    /\ ~InFlight(p)
    /\ \E toolName \in ToolNames, toolArgs \in ParamSets :
        Go(p, [Fresh("executeMCPToolCall") EXCEPT
                  !.pc = "return", !.operation = toolName, !.params = toolArgs,
                  !.request = NotionOperationRequest(MappedOperation(toolName),
                                                     toolArgs)])
    /\ UNCHANGED <<now, conn, cache, lock, issued, ivSeq, flags>>
    /\ UNCHANGED oauthVars

\* executeMCPRequest(userId, method, params): executeNotionOperation with the
\* name as given
ExecuteMCPRequest(p) ==
    /\ ~InFlight(p)
    /\ \E method \in ToolNames, params \in ParamSets :
        Go(p, [Fresh("executeMCPRequest") EXCEPT
                  !.pc = "return", !.operation = method, !.params = params,
                  !.request = NotionOperationRequest(method, params)])
    /\ UNCHANGED <<now, conn, cache, lock, issued, ivSeq, flags>>
    /\ UNCHANGED oauthVars

AliasNext == ExecuteMCPToolCall(1) \/ ExecuteMCPRequest(1) \/ Return(1)

\* the requests built for every name and params of the model
SpecAlias == Init /\ [][AliasNext]_vars

\* the names the claim calls equivalent to name
EquivalentNames(name) ==
    {m \in ToolNames :
        \/ m = name
        \/ {m, name} = {"list_pages", "search_pages"}
        \/ {m, name} = {"list_databases", "search_databases"}
        \/ \E plain \in SupportedOperations :
              {m, name} = {plain, "notion_" \o plain} \cap ToolNames}

\* C37: a name resolved by executeMCPToolCall and again by
\* executeNotionOperation selects what one resolution selects, and the names
\* list_pages / search_pages, list_databases / search_databases and each
\* notion_* name and its plain name give the same upstream request (or the
\* same rejection) for the same params
C37_AliasesResolveAlike ==
    \A p \in Procs :
        (Returned(p) /\ proc[p].op \in {"executeMCPToolCall", "executeMCPRequest"})
        => /\ proc[p].request =
                  UpstreamRequest(MappedOperation(proc[p].operation), proc[p].params)
           /\ \A m \in EquivalentNames(proc[p].operation) :
                  UpstreamRequest(MappedOperation(m), proc[p].params)
                      = proc[p].request

\* list_pages has gone through both resolutions and sends the request of
\* search_pages: the page filter and the default page size 20
C37_Witness ==
    \E p \in Procs :
        /\ Returned(p)
        /\ proc[p].op = "executeMCPToolCall"
        /\ proc[p].operation = "list_pages"
        /\ proc[p].params.pageSize = Undefined
        /\ proc[p].request.method = "POST"
        /\ proc[p].request.filter = Val("page")
        /\ proc[p].request.page_size = Val(20)


\* ------------------------------------------ transformSearchResult (C38)

\* items of a result list the model draws from
MaxItems == 2

\* properties of a page: absent, {}, a title under the key Name, a title-type
\* property under another key
PageProperties ==
    {Undefined,
     Val(<<>>),
     Val(<<[key |-> "Name", type |-> "title", title |-> <<"Plan">>]>>),
     Val(<<[key |-> "Status", type |-> "select", title |-> <<>>],
           [key |-> "Task", type |-> "title", title |-> <<"Plan">>]>>)}

\* the items of an upstream result: pages and databases with every
\* combination of absent and present fields, and a user object
Items ==
    [object : {"page"}, id : {0}, properties : PageProperties,
     title : {Undefined}, description : {Undefined},
     url : {Undefined, Val("https://notion.so/x")},
     icon : {Undefined, Val([type |-> "emoji", emoji |-> "E"])},
     last_edited_time : {Undefined, Val("2024-01-01")},
     parent : {Undefined, Val([type |-> "workspace"])}]
    \cup
    [object : {"database"}, id : {0}, properties : {Undefined},
     title : {Undefined, Val(<<"Tasks">>)},
     description : {Undefined, Val(<<"About">>)},
     url : {Undefined, Val("https://notion.so/x")},
     icon : {Undefined, Val([type |-> "external", url |-> "https://x/i.png"])},
     last_edited_time : {Undefined},
     parent : {Undefined}]
    \cup
    [object : {"user"}, id : {0}, properties : {Undefined},
     title : {Undefined}, description : {Undefined}, url : {Undefined},
     icon : {Undefined}, last_edited_time : {Undefined}, parent : {Undefined}]

\* the result lists: up to MaxItems items, the id of an item its position
ResultLists ==
    UNION {[1 .. n -> Items] : n \in 0 .. MaxItems}

WithIds(items) == [k \in 1 .. Len(items) |-> [items[k] EXCEPT !.id = k]]

\* a ?? null
OrNull(a) == IF a = Undefined THEN Null ELSE a

\* rich?.[0]?.plain_text of an array of rich text, Undefined when falsy
FirstPlainText(rich) ==
    IF rich = <<>> \/ rich[1] = "" THEN Undefined ELSE Val(rich[1])

\* extractPageTitle: the first title-type property of the keys after k
RECURSIVE TitleTypeProperty(_, _)
TitleTypeProperty(props, k) ==
    IF k > Len(props) THEN Null
    ELSE IF props[k].type = "title" /\ FirstPlainText(props[k].title) # Undefined
    THEN FirstPlainText(props[k].title)
    ELSE TitleTypeProperty(props, k + 1)

\* props.title ?? props.Title ?? props.Name ?? props.name
CommonTitleProperty(props) ==
    LET named(key) == {k \in 1 .. Len(props) : props[k].key = key}
        found == CASE named("title") # {} -> named("title")
                   [] named("Title") # {} -> named("Title")
                   [] named("Name") # {} -> named("Name")
                   [] OTHER -> named("name")
    IN  IF found = {} THEN Undefined ELSE Val(props[CHOOSE k \in found : TRUE])

extractPageTitle(page) ==
    IF page.properties = Undefined THEN Null
    ELSE LET props == page.properties.value
             titleProp == CommonTitleProperty(props)
         IN  IF /\ titleProp # Undefined
                /\ FirstPlainText(titleProp.value.title) # Undefined
             THEN FirstPlainText(titleProp.value.title)
             ELSE TitleTypeProperty(props, 1)

extractDatabaseTitle(db) ==
    IF db.title # Undefined /\ FirstPlainText(db.title.value) # Undefined
    THEN FirstPlainText(db.title.value)
    ELSE Null

\* extractIcon: the emoji, a picture sign for an external or uploaded image
extractIcon(icon) ==
    IF icon = Undefined THEN Null
    ELSE IF icon.value.type = "emoji" THEN Val(icon.value.emoji)
    ELSE IF icon.value.type \in {"external", "file"} THEN Val("picture")
    ELSE Null

PageView(page) ==
    [id |-> page.id,
     title |-> extractPageTitle(page),
     url |-> OrNull(page.url),
     icon |-> extractIcon(page.icon),
     last_edited |-> OrNull(page.last_edited_time),
     parent_type |-> IF page.parent = Undefined THEN Null
                     ELSE Val(page.parent.value.type)]

DatabaseView(db) ==
    [id |-> db.id,
     title |-> extractDatabaseTitle(db),
     url |-> OrNull(db.url),
     icon |-> extractIcon(db.icon),
     description |-> IF db.description = Undefined THEN Null
                     ELSE OrNull(FirstPlainText(db.description.value))]

\* a faulty variant of PushItem: whatever is not a page is a database
PushItemNoKind(out, item) ==
    IF item.object = "page"
    THEN [out EXCEPT !.pages = Append(@, PageView(item))]
    ELSE [out EXCEPT !.databases = Append(@, DatabaseView(item))]

\* the body of the loop of transformSearchResult
PushItem(out, item) ==
    IF item.object = "page"
    THEN [out EXCEPT !.pages = Append(@, PageView(item))]
    ELSE IF item.object = "database"
    THEN [out EXCEPT !.databases = Append(@, DatabaseView(item))]
    ELSE out

\* the loop over result.results from item k on
RECURSIVE TransformFrom(_, _, _)
TransformFrom(results, k, out) ==
    IF k > Len(results) THEN out
    ELSE TransformFrom(results, k + 1, PushItem(out, results[k]))

transformSearchResult(results) == TransformFrom(results, 1, NoTransformed)

\* transformSearchResult applied to an upstream result
TransformSearchResult(p) ==
    /\ ~InFlight(p)
    /\ \E items \in ResultLists :
        Go(p, [Fresh("transformSearchResult") EXCEPT
                  !.pc = "return", !.results = WithIds(items),
                  !.transformed = transformSearchResult(WithIds(items))])
    /\ UNCHANGED <<now, conn, cache, lock, issued, ivSeq, flags>>
    /\ UNCHANGED oauthVars

TransformNext == TransformSearchResult(1) \/ Return(1)

SpecTransform == Init /\ [][TransformNext]_vars

\* the ids of a sequence of items or views, in order
IdsOf(seq) == [k \in 1 .. Len(seq) |-> seq[k].id]

OfKind(results, kind) == SelectSeq(results, LAMBDA item : item.object = kind)

\* a view field is null exactly when the field it is read from is missing
NullIffMissing(field, from) == (field = Null) <=> (from = Undefined)

\* C38: pages holds the page items and databases the database items of the
\* result, each once and in the order of the result, items of another kind
\* are in neither list, and a missing title, icon, url, last-edited time,
\* parent type or description is null in the view
C38_TransformPartitions ==
    \A p \in Procs :
        (Returned(p) /\ proc[p].op = "transformSearchResult")
        => LET results == proc[p].results
               out == proc[p].transformed
               pages == OfKind(results, "page")
               databases == OfKind(results, "database")
           IN  /\ IdsOf(out.pages) = IdsOf(pages)
               /\ IdsOf(out.databases) = IdsOf(databases)
               /\ \A k \in 1 .. Len(pages) :
                     /\ NullIffMissing(out.pages[k].url, pages[k].url)
                     /\ NullIffMissing(out.pages[k].icon, pages[k].icon)
                     /\ NullIffMissing(out.pages[k].last_edited,
                                       pages[k].last_edited_time)
                     /\ NullIffMissing(out.pages[k].parent_type, pages[k].parent)
                     /\ pages[k].properties \in {Undefined, Val(<<>>)}
                            => out.pages[k].title = Null
                     /\ pages[k].properties \notin {Undefined, Val(<<>>)}
                            => out.pages[k].title = Val("Plan")
               /\ \A k \in 1 .. Len(databases) :
                     /\ NullIffMissing(out.databases[k].url, databases[k].url)
                     /\ NullIffMissing(out.databases[k].icon, databases[k].icon)
                     /\ NullIffMissing(out.databases[k].title, databases[k].title)
                     /\ NullIffMissing(out.databases[k].description,
                                       databases[k].description)

\* a result of a user object and a page without properties, url, icon, time
\* and parent: one page view, all of these fields null, no database
C38_Witness ==
    \E p \in Procs :
        /\ Returned(p)
        /\ proc[p].op = "transformSearchResult"
        /\ Len(proc[p].results) = 2
        /\ proc[p].results[1].object = "user"
        /\ proc[p].results[2].object = "page"
        /\ proc[p].results[2].properties = Undefined
        /\ proc[p].transformed.databases = <<>>
        /\ proc[p].transformed.pages =
              <<[id |-> 2, title |-> Null, url |-> Null, icon |-> Null,
                 last_edited |-> Null, parent_type |-> Null]>>


\* the row of state s is expired, or consumed and created more than an hour
\* ago
Sweepable(s) ==
    /\ oauth_states[s] # NoState
    /\ \/ oauth_states[s].expires_at < now
       \/ /\ oauth_states[s].consumed
          /\ oauth_states[s].expires_at - OAUTH_STATE_EXPIRY < now - CLEANUP_GRACE

\* a step of the periodic sweep: rows change and no call has moved
SweepStep == proc' = proc /\ oauth_states' # oauth_states

\* C39: a run of the periodic sweep deletes only rows that are expired, or
\* consumed and more than an hour old; no step deletes an outstanding
\* (stored, unconsumed, unexpired) state, and a validation that its owner
\* begins while the state is outstanding passes the checks, whatever sweeps
\* have run since the state was generated
C39_SweepSparesValidStates ==
    [][/\ SweepStep =>
            \A s \in StateIds :
                oauth_states'[s] # oauth_states[s]
                    => (Sweepable(s) /\ oauth_states'[s] = NoState)
       /\ \A s \in StateIds :
            Outstanding(s) => oauth_states'[s] # NoState
       /\ \A p \in Procs :
            (/\ ~InFlight(p)
             /\ proc'[p].op \in {"validateCallbackState", "handleCallback"}
             /\ Outstanding(proc'[p].state)
             /\ oauth_states[proc'[p].state].user_id = proc'[p].sessionUserId)
            => proc'[p].pc = "v_update"]_vars

\* the row of the first state, consumed by a validateCallbackState and then
\* expired, has been removed, and no handleCallback has stored tokens, so the
\* sweep has removed it; the second state was generated before that sweep,
\* is still outstanding, and its validation has passed the checks
C39_Witness ==
    \E p \in Procs :
        /\ proc[p].pc = "v_update"
        /\ proc[p].state = 2
        /\ Outstanding(2)
        /\ oauth_states[2].expires_at < now + OAUTH_STATE_EXPIRY
        /\ verifiers[1] = 1
        /\ oauth_states[1] = NoState
        /\ \A u \in Users : conn[u] = NoRow
====
